---- MODULE Spec2Model ----
(***************************************************************************)
(* Voice receptionist orchestrator (src/voice-agent/app): the session      *)
(* store (ContextTracker), the safety guardrails, the workflow engine and  *)
(* the hospital backend client, as state machines.                         *)
(*                                                                         *)
(* Python values are modelled as follows.  A dict is a function whose      *)
(* DOMAIN is the set of its keys.  None is the string "None"; a value is   *)
(* truthy when it is neither None nor the empty string.  Time is an        *)
(* integer number of clock ticks read by datetime.now().                   *)
(***************************************************************************)
EXTENDS Integers, Sequences, FiniteSets, TLC

VARIABLES
    sessions,   \* ContextTracker._sessions: session id -> ConversationSession
    issued,     \* the session ids create_session has handed out
    now,        \* the wall clock
    ret,        \* the last session-store call and what it returned
    sfIn,       \* safety: the arguments of get_safe_response
    sfOut,      \* safety: what get_safe_response returned, Pending before the call
    token,        \* HISClient._token
    token_expiry, \* HISClient._token_expiry
    callers,      \* the coroutines using the backend, and where each is suspended
    reply,        \* the last dialog turn: what it was and how it was answered
    inflight,     \* dialog turns suspended in their backend request
    log,          \* the log events of the last dialog turn
    retry,        \* one RetryHandler.execute call: attempts made, sleeps, outcome
    breaker,      \* one CircuitBreaker and the calls in progress through it
    api_calls,    \* BaseWorkflow.api_calls of the workflow registered for REPORT_EMERGENCY
    recorded      \* the last audited turn: its session, its calls, the api_calls of its Turn

storeVars == <<sessions, issued, now, ret>>

safetyVars == <<sfIn, sfOut>>

clientVars == <<token, token_expiry, callers>>

engineVars == <<reply, inflight, log>>

resilienceVars == <<retry, breaker>>

auditVars == <<api_calls, recorded>>

vars == <<storeVars, safetyVars, clientVars, engineVars, resilienceVars, auditVars>>

-----------------------------------------------------------------------------
(* Bounds and configuration *)

\* ContextTracker(max_turns=...): turns a session accepts (20 by default).
max_turns == 2

\* ContextTracker(session_timeout=...): idle ticks before expiry
\* (300 s by default).
session_timeout == 1

\* The clock stops advancing here.
MaxTime == 3

\* Dialog turns answered in a run.
MaxServed == 3

\* Longest text handed to mask_sensitive_data, in words.
MaxGroups == 5

\* Consecutive turns of unrecognizable text in one session.
UnclearTurns == 5

\* CircuitBreaker: failures that open it, and ticks it then stays open.
failure_threshold == 2

recovery_timeout == 1

\* Largest max_retries of a RetryConfig.
MaxRetries == 3

\* Calls a workflow instance records before the service is restarted.
MaxCalls == 4

\* Ids create_session hands out, and an id it never hands out.
SessionIds == {"s1"}

UnknownIds == {"unknown"}

CallIds == SessionIds \cup UnknownIds

None == "None"

Truthy(v) == v # None /\ v # ""

EmptyDict == [k \in {} |-> None]

\* dict.get(k)
Get(d, k) == IF k \in DOMAIN d THEN d[k] ELSE None

\* {**a, **b}, and a.update(b)
Merge(a, b) == [k \in (DOMAIN a) \cup (DOMAIN b) |-> IF k \in DOMAIN b THEN b[k] ELSE a[k]]

-----------------------------------------------------------------------------
(* Session store: conversation/context_tracker.py *)

\* The entity dicts callers hand to add_turn.
EntityBags ==
    { EmptyDict,
      [phone |-> "p1"],
      [phone |-> ""],
      [phone |-> "p2"],
      [phone |-> "", name |-> "n1"] }

\* The workflow names and state dicts callers hand to set_workflow /
\* update_workflow_state.
WorkflowNames == {"BOOK_APPOINTMENT", "REPORT_EMERGENCY"}

StateBags ==
    { EmptyDict,
      [step |-> "need_date"],
      [step |-> "awaiting_confirmation", patient_id |-> None] }

\* ConversationSession(...) as built by create_session.
NewSession(channel, t) ==
    [ channel          |-> channel,
      last_activity    |-> t,
      turns            |-> << >>,
      context          |-> EmptyDict,
      current_workflow |-> None,
      workflow_state   |-> EmptyDict,
      is_active        |-> TRUE ]

\* ConversationSession.turn_count
turn_count(sess) == Len(sess.turns)

\* ContextTracker._is_session_expired
IsSessionExpired(sess, t) == t > sess.last_activity + session_timeout

\* get_session without the expiry test.
GetSessionFoundNoExpiry(S, sid, t) == sid \in DOMAIN S

\* ContextTracker.get_session: whether a session object is returned ...
GetSessionFound(S, sid, t) == sid \in DOMAIN S /\ ~IsSessionExpired(S[sid], t)

\* ... and the store it leaves (an expired session is marked inactive).
GetSessionStore(S, sid, t) ==
    IF sid \in DOMAIN S /\ IsSessionExpired(S[sid], t)
    THEN [S EXCEPT ![sid].is_active = FALSE]
    ELSE S

\* Merge that stores empty values too.
MergeEntitiesAll(context, entities) == Merge(context, entities)

\* ContextTracker._merge_entities
MergeEntities(context, entities) ==
    [k \in (DOMAIN context) \cup {e \in DOMAIN entities : Truthy(entities[e])} |->
        IF k \in DOMAIN entities /\ Truthy(entities[k]) THEN entities[k] ELSE context[k]]

\* The guard with > for >=.
TurnLimitReachedStrict(sess) == turn_count(sess) > max_turns

\* ContextTracker.add_turn, the guard on the turn count
TurnLimitReached(sess) == turn_count(sess) >= max_turns

\* Turn ids counted from 0.
NextTurnIdZeroBased(sess) == turn_count(sess)

\* ContextTracker.add_turn, the id given to the new turn
NextTurnId(sess) == turn_count(sess) + 1

\* ContextTracker.add_turn: the value returned.
AddTurnOk(S, sid, t) == GetSessionFound(S, sid, t) /\ ~TurnLimitReached(S[sid])

\* ContextTracker.add_turn: the store it leaves.  t is the clock read by
\* get_session and by the turn's timestamp, t2 >= t the clock read for
\* last_activity.
AddTurnStore(S, sid, entities, t, t2) ==
    LET S1 == GetSessionStore(S, sid, t) IN
    IF ~GetSessionFound(S, sid, t) THEN S1
    ELSE IF TurnLimitReached(S1[sid]) THEN [S1 EXCEPT ![sid].is_active = FALSE]
    ELSE [S1 EXCEPT ![sid] =
            [@ EXCEPT !.turns = Append(@, [turn_id |-> NextTurnId(S1[sid]), timestamp |-> t]),
                      !.last_activity = t2,
                      !.context = MergeEntities(@, entities)]]

\* ContextTracker.set_workflow
SetWorkflowStore(S, sid, name, initial_state, t) ==
    LET S1 == GetSessionStore(S, sid, t) IN
    IF GetSessionFound(S, sid, t)
    THEN [S1 EXCEPT ![sid] = [@ EXCEPT !.current_workflow = name,
                                        !.workflow_state = initial_state]]
    ELSE S1

\* ContextTracker.update_workflow_state
UpdateWorkflowStateStore(S, sid, updates, t) ==
    LET S1 == GetSessionStore(S, sid, t) IN
    IF GetSessionFound(S, sid, t)
    THEN [S1 EXCEPT ![sid].workflow_state = Merge(@, updates)]
    ELSE S1

\* ContextTracker.clear_workflow
ClearWorkflowStore(S, sid, t) ==
    LET S1 == GetSessionStore(S, sid, t) IN
    IF GetSessionFound(S, sid, t)
    THEN [S1 EXCEPT ![sid] = [@ EXCEPT !.current_workflow = None,
                                        !.workflow_state = EmptyDict]]
    ELSE S1

\* ContextTracker.end_session
EndSessionStore(S, sid, t) ==
    LET S1 == GetSessionStore(S, sid, t) IN
    IF GetSessionFound(S, sid, t)
    THEN [S1 EXCEPT ![sid].is_active = FALSE]
    ELSE S1

\* ContextTracker.cleanup_expired_sessions
CleanupStore(S, t) ==
    [s \in {x \in DOMAIN S : ~IsSessionExpired(S[x], t)} |-> S[s]]

NoRet == [op |-> "none", sid |-> None, ok |-> FALSE]

Ret(op, sid, ok) == [op |-> op, sid |-> sid, ok |-> ok]

StoreIdle ==
    /\ sessions = [s \in {} |-> NewSession("phone", 0)]
    /\ issued = {}
    /\ now = 0
    /\ ret = NoRet

InitStore ==
    /\ sessions = [s \in {} |-> NewSession("phone", 0)]
    /\ issued = {}
    /\ now = 0
    /\ ret = NoRet

\* What the session-store calls leave alone.
StoreFrame == UNCHANGED <<safetyVars, clientVars, engineVars, resilienceVars, auditVars>>

\* Time passes.
Tick ==
    /\ now < MaxTime
    /\ now' = now + 1
    /\ ret' = NoRet
    /\ UNCHANGED <<sessions, issued>>
    /\ StoreFrame

\* create_session: uuid4 gives an id no session has had.
CreateSession ==
    \E sid \in SessionIds \ issued, channel \in {"phone", "patient_portal"} :
        /\ sessions' = [s \in (DOMAIN sessions) \cup {sid} |->
                            IF s = sid THEN NewSession(channel, now) ELSE sessions[s]]
        /\ issued' = issued \cup {sid}
        /\ ret' = Ret("create_session", sid, TRUE)
        /\ UNCHANGED now
        /\ StoreFrame

GetSession ==
    \E sid \in CallIds :
        /\ sessions' = GetSessionStore(sessions, sid, now)
        /\ ret' = Ret("get_session", sid, GetSessionFound(sessions, sid, now))
        /\ UNCHANGED <<now, issued>>
        /\ StoreFrame

\* add_turn; an accepted call is recorded with the entities it was given.
AddTurn ==
    \E sid \in CallIds, entities \in EntityBags, d \in {0, 1} :
        /\ now + d <= MaxTime
        /\ sessions' = AddTurnStore(sessions, sid, entities, now, now + d)
        /\ ret' = IF AddTurnOk(sessions, sid, now)
                  THEN [op |-> "add_turn", sid |-> sid, ok |-> TRUE, entities |-> entities]
                  ELSE Ret("add_turn", sid, FALSE)
        /\ now' = now + d
        /\ UNCHANGED issued
        /\ StoreFrame

SetWorkflow ==
    \E sid \in CallIds, name \in WorkflowNames, st \in StateBags :
        /\ sessions' = SetWorkflowStore(sessions, sid, name, st, now)
        /\ ret' = Ret("set_workflow", sid, GetSessionFound(sessions, sid, now))
        /\ UNCHANGED <<now, issued>>
        /\ StoreFrame

UpdateWorkflowState ==
    \E sid \in CallIds, st \in StateBags :
        /\ sessions' = UpdateWorkflowStateStore(sessions, sid, st, now)
        /\ ret' = Ret("update_workflow_state", sid, GetSessionFound(sessions, sid, now))
        /\ UNCHANGED <<now, issued>>
        /\ StoreFrame

ClearWorkflow ==
    \E sid \in CallIds :
        /\ sessions' = ClearWorkflowStore(sessions, sid, now)
        /\ ret' = Ret("clear_workflow", sid, GetSessionFound(sessions, sid, now))
        /\ UNCHANGED <<now, issued>>
        /\ StoreFrame

EndSession ==
    \E sid \in CallIds :
        /\ sessions' = EndSessionStore(sessions, sid, now)
        /\ ret' = Ret("end_session", sid, GetSessionFound(sessions, sid, now))
        /\ UNCHANGED <<now, issued>>
        /\ StoreFrame

CleanupExpiredSessions ==
    /\ sessions' = CleanupStore(sessions, now)
    /\ ret' = Ret("cleanup_expired_sessions", None, TRUE)
    /\ UNCHANGED <<now, issued>>
    /\ StoreFrame

NextStore ==
    \/ Tick
    \/ CreateSession
    \/ GetSession
    \/ AddTurn
    \/ SetWorkflow
    \/ UpdateWorkflowState
    \/ ClearWorkflow
    \/ EndSession
    \/ CleanupExpiredSessions

-----------------------------------------------------------------------------
(* Safety guardrails: conversation/safety.py *)
(* A text is a sequence of words; a keyword is a sequence of lower-case    *)
(* words and occurs in a text when it is a contiguous part of the          *)
(* lower-cased text.  A confidence is a number of hundredths.              *)

\* CONFIDENCE_THRESHOLDS
ThresholdHigh == 85

ThresholdMedium == 65

ThresholdLow == 40

\* INTENT_CONFIDENCE_OVERRIDES
OverrideRegisterPatient == 80

OverrideBookAppointment == 75

OverrideReportEmergency == 50

OverrideRequestBedAllocation == 80

OverrideCancelAppointment == 85

\* SafetyGuardrails.MAX_TURNS_BEFORE_ESCALATION
MAX_TURNS_BEFORE_ESCALATION == 15

\* SafetyGuardrails.MAX_INTENT_FAILURES
MAX_INTENT_FAILURES == 3

\* SafetyGuardrails.EMERGENCY_KEYWORDS
EMERGENCY_KEYWORDS ==
    << <<"emergency">>, <<"urgent">>, <<"accident">>, <<"heart", "attack">>, <<"stroke">>,
       <<"bleeding">>, <<"unconscious">>, <<"chest", "pain">>, <<"breathing", "problem">>,
       <<"seizure">>, <<"collapse">>, <<"dying">>, <<"critical">>, <<"ambulance">> >>

\* SafetyGuardrails.HUMAN_ESCALATION_KEYWORDS
HUMAN_ESCALATION_KEYWORDS ==
    << <<"human">>, <<"person">>, <<"real", "person">>, <<"speak", "to", "someone">>,
       <<"transfer">>, <<"operator">>, <<"receptionist">>, <<"manager">>,
       <<"not", "working">>, <<"useless">>, <<"stupid", "bot">>, <<"talk", "to", "human">> >>

\* str.lower() on the words of the vocabulary
LowerWord(w) ==
    CASE w = "URGENT" -> "urgent"
      [] w = "Chest"  -> "chest"
      [] w = "Human"  -> "human"
      [] OTHER        -> w

Lower(text) == [i \in 1..Len(text) |-> LowerWord(text[i])]

\* keyword in text
Occurs(keyword, text) ==
    \E i \in 1..Len(text) :
        /\ i + Len(keyword) - 1 <= Len(text)
        /\ SubSeq(text, i, i + Len(keyword) - 1) = keyword

\* Emergency scan that compares the text as typed.
CheckForEmergencyCaseSensitive(text) ==
    \E k \in 1..Len(EMERGENCY_KEYWORDS) : Occurs(EMERGENCY_KEYWORDS[k], text)

\* SafetyGuardrails.check_for_emergency
CheckForEmergency(text) ==
    \E k \in 1..Len(EMERGENCY_KEYWORDS) : Occurs(EMERGENCY_KEYWORDS[k], Lower(text))

\* SafetyGuardrails.check_for_human_escalation
CheckForHumanEscalation(text) ==
    \E k \in 1..Len(HUMAN_ESCALATION_KEYWORDS) :
        Occurs(HUMAN_ESCALATION_KEYWORDS[k], Lower(text))

\* SafetyGuardrails.get_confidence_level
GetConfidenceLevel(confidence) ==
    IF confidence >= ThresholdHigh THEN "high"
    ELSE IF confidence >= ThresholdMedium THEN "medium"
    ELSE IF confidence >= ThresholdLow THEN "low"
    ELSE "very_low"

\* INTENT_CONFIDENCE_OVERRIDES.get(intent, CONFIDENCE_THRESHOLDS[MEDIUM])
IntentThreshold(intent) ==
    CASE intent = "REGISTER_PATIENT"       -> OverrideRegisterPatient
      [] intent = "BOOK_APPOINTMENT"       -> OverrideBookAppointment
      [] intent = "REPORT_EMERGENCY"       -> OverrideReportEmergency
      [] intent = "REQUEST_BED_ALLOCATION" -> OverrideRequestBedAllocation
      [] intent = "CANCEL_APPOINTMENT"     -> OverrideCancelAppointment
      [] OTHER                             -> ThresholdMedium

\* SafetyGuardrails.check_intent_confidence: (action, message)
CheckIntentConfidence(intent, confidence) ==
    LET level == GetConfidenceLevel(confidence) IN
    IF level = "high" THEN [action |-> "allow", message |-> ""]
    ELSE IF level = "medium" THEN
        IF confidence >= IntentThreshold(intent)
        THEN [action |-> "allow", message |-> ""]
        ELSE [action |-> "confirm", message |-> "Just to confirm, did you want to ...?"]
    ELSE IF level = "low"
    THEN [action |-> "clarify", message |-> "I'm not quite sure I understood."]
    ELSE [action |-> "clarify", message |-> "I'm sorry, I didn't catch that."]

\* SafetyGuardrails.should_escalate
ShouldEscalate(context) ==
    \/ context.turn_count >= MAX_TURNS_BEFORE_ESCALATION
    \/ context.failed_intents >= MAX_INTENT_FAILURES

HandOffMessage == "Let me connect you with a human receptionist"

\* get_safe_response with the confidence gate ahead of the emergency scan.
GetSafeResponseConfidenceFirst(intent, confidence, raw_text, context) ==
    LET conf == CheckIntentConfidence(intent, confidence) IN
    IF conf.action # "allow"
    THEN [action |-> conf.action, message |-> conf.message, intent_override |-> None]
    ELSE IF CheckForEmergency(raw_text)
    THEN [action |-> "escalate", message |-> None, intent_override |-> "REPORT_EMERGENCY"]
    ELSE [action |-> "allow", message |-> None, intent_override |-> None]

\* SafetyGuardrails.get_safe_response (action, message, intent_override;
\* log_text is the masked text and plays no part in the decision).
GetSafeResponse(intent, confidence, raw_text, context) ==
    LET conf == CheckIntentConfidence(intent, confidence) IN
    IF CheckForEmergency(raw_text)
    THEN [action |-> "escalate", message |-> None, intent_override |-> "REPORT_EMERGENCY"]
    ELSE IF CheckForHumanEscalation(raw_text)
    THEN [action |-> "escalate", message |-> None, intent_override |-> "ESCALATE_TO_HUMAN"]
    ELSE IF conf.action # "allow"
    THEN [action |-> conf.action, message |-> conf.message, intent_override |-> None]
    ELSE IF ShouldEscalate(context)
    THEN [action |-> "escalate", message |-> HandOffMessage, intent_override |-> None]
    ELSE [action |-> "allow", message |-> None, intent_override |-> None]

\* The words callers say.
Vocabulary == {"emergency", "URGENT", "Chest", "pain", "Human", "book", "asdf"}

\* Longest text, in words.
MaxWords == 2

Texts == UNION {[1..n -> Vocabulary] : n \in 0..MaxWords}

SafetyIntents == {"UNCLEAR", "BOOK_APPOINTMENT", "REPORT_EMERGENCY", "CANCEL_APPOINTMENT", "GREETING"}

Confidences == {0, 30, 39, 40, 50, 64, 65, 75, 84, 85, 100}

SafetyContexts ==
    [turn_count : {0, 14, 15}, failed_intents : {0, 2, 3}]

\* No call made yet.
Pending == [action |-> "pending", message |-> None, intent_override |-> None]

InitSafety ==
    /\ sfIn \in [intent : SafetyIntents, confidence : Confidences,
                 raw_text : Texts, context : SafetyContexts]
    /\ sfOut = Pending

SafetyIdle ==
    /\ sfIn = [intent |-> "GREETING", confidence |-> 0, raw_text |-> << >>,
               context |-> [turn_count |-> 0, failed_intents |-> 0]]
    /\ sfOut = Pending

\* process_conversation, step 2: the safety check on the classified intent.
SafetyCheck ==
    /\ sfOut = Pending
    /\ sfOut' = GetSafeResponse(sfIn.intent, sfIn.confidence, sfIn.raw_text, sfIn.context)
    /\ UNCHANGED sfIn
    /\ UNCHANGED <<storeVars, clientVars, engineVars, resilienceVars, auditVars>>

-----------------------------------------------------------------------------
(* Masking for logs: SafetyGuardrails.mask_sensitive_data                  *)
(* A text is its words and the single separators between them, in turn:    *)
(* <<word, separator, word, ...>>.  A word is a run of digits, written by   *)
(* its length ("d4", "d10", ...), or holds a letter.  Masking keeps the     *)
(* last four digits of what it masks, which is again a run "d4".            *)

\* The number of digits of a word that is a run of digits, else 0.
Digits(word) ==
    CASE word = "d4"  -> 4
      [] word = "d10" -> 10
      [] word = "d12" -> 12
      [] word = "d16" -> 16
      [] OTHER        -> 0

\* \b(\d{4})[\s-]?(\d{4})...\b for `need` digits, tried at word i: the
\* index of the word the match ends in, 0 when there is no match.  The
\* groups may be split over words only where a separator is allowed, and
\* the match begins and ends at word boundaries.
RECURSIVE GroupsEnd(_, _, _)
GroupsEnd(text, i, need) ==
    LET n == Digits(text[i]) IN
    IF n = 0 \/ n > need \/ n % 4 # 0 THEN 0
    ELSE IF n = need THEN i
    ELSE IF i + 2 <= Len(text) THEN GroupsEnd(text, i + 2, need - n)
    ELSE 0

\* re.sub of such a pattern from word i on: matches are taken leftmost and
\* do not overlap.
RECURSIVE SubGroups(_, _, _, _)
SubGroups(text, i, need, repl) ==
    IF i > Len(text) THEN << >>
    ELSE LET j == GroupsEnd(text, i, need)
             k == IF j > 0 THEN j ELSE i
             head == IF j > 0 THEN repl ELSE <<text[i]>>
         IN IF k < Len(text)
            THEN head \o <<text[k + 1]>> \o SubGroups(text, k + 2, need, repl)
            ELSE head

\* re.sub(r'\b(\d{6})(\d{4})\b', r'XXXXXX\2', ...): a word of ten digits.
SubPhone(text) ==
    [i \in 1..Len(text) |-> IF Digits(text[i]) = 10 THEN "XXXXXXd4" ELSE text[i]]

\* SafetyGuardrails.mask_sensitive_data: Aadhaar, then phone, then card.
MaskSensitiveData(text) ==
    SubGroups(SubPhone(SubGroups(text, 1, 12, <<"XXXX", "-", "XXXX", "-", "d4">>)),
              1, 16, <<"XXXX", "-", "XXXX", "-", "XXXX", "-", "d4">>)

\* The words and separators of the texts masked.
MaskWords == {"d4", "d10", "d12", "d16", "call"}

Separators == {" ", "-"}

MaskTexts(longest) ==
    UNION { { [k \in 1..(2 * n - 1) |-> IF k % 2 = 1 THEN w[(k + 1) \div 2] ELSE sp[k \div 2]] :
                w \in [1..n -> MaskWords], sp \in [1..(n - 1) -> Separators] } :
            n \in 1..longest }

\* A logged value as the text mask_sensitive_data reads: the ten-digit
\* phone is one run of ten digits, the other values callers give hold no
\* run of four or more digits next to another.
LogText(value) == IF value = "9876543210" THEN <<"d10">> ELSE <<"call">>

\* mask_sensitive_data applied to a text, and again to its result.
MaskCall ==
    /\ sfOut = Pending
    /\ sfIn.op = "mask_sensitive_data"
    /\ sfOut' = [ op |-> "mask_sensitive_data",
                  masked |-> MaskSensitiveData(sfIn.text),
                  again |-> MaskSensitiveData(MaskSensitiveData(sfIn.text)) ]
    /\ UNCHANGED sfIn
    /\ UNCHANGED <<storeVars, clientVars, engineVars, resilienceVars, auditVars>>

-----------------------------------------------------------------------------
(* Entity validation: conversation/validators.py (validate_phone)          *)
(* A phone is the sequence of its characters.                              *)

DigitChars == {"0", "1", "2", "3", "4", "5", "6", "7", "8", "9"}

\* re.sub(r'[\s\-\(\)\+]', '', str(phone))
Cleaned(phone) ==
    LET Kept(c) == c \notin {" ", "-", "(", ")", "+"} IN SelectSeq(phone, Kept)

AllDigits(str, from) == \A i \in from..Len(str) : str[i] \in DigitChars

\* EntityValidator.PHONE_PATTERNS, in order, matched against a cleaned phone
PhonePatternMatches(k, cleaned) ==
    CASE k = 1 -> Len(cleaned) = 10 /\ cleaned[1] \in {"6", "7", "8", "9"} /\ AllDigits(cleaned, 2)
      [] k = 2 -> Len(cleaned) = 11 /\ cleaned[1] = "0" /\ AllDigits(cleaned, 2)
      [] k = 3 -> Len(cleaned) = 12 /\ cleaned[1] = "9" /\ cleaned[2] = "1" /\ AllDigits(cleaned, 3)
      [] k = 4 -> Len(cleaned) = 13 /\ cleaned[1] = "+" /\ cleaned[2] = "9" /\ cleaned[3] = "1"
                  /\ AllDigits(cleaned, 4)

\* validate_phone, the normalisation inside the pattern loop: the last ten
\* digits, or no value when no length rule applies.
NormalizedPhone(cleaned) ==
    IF Len(cleaned) = 12 /\ cleaned[1] = "9" /\ cleaned[2] = "1" THEN SubSeq(cleaned, 3, 12)
    ELSE IF Len(cleaned) = 11 /\ cleaned[1] = "0" THEN SubSeq(cleaned, 2, 11)
    ELSE IF Len(cleaned) = 10 THEN cleaned
    ELSE << >>

\* EntityValidator.validate_phone: (result, normalized)
validate_phone(phone) ==
    LET cleaned == Cleaned(phone)
        hits == {k \in 1..4 : PhonePatternMatches(k, cleaned) /\ NormalizedPhone(cleaned) # << >>}
    IN IF phone = << >> \/ hits = {}
       THEN [result |-> "invalid", normalized |-> << >>]
       ELSE [result |-> "valid", normalized |-> NormalizedPhone(cleaned)]

\* The phones validated: a prefix, a first digit and the rest of a mobile
\* number, the rest one digit short in some, written with or without a
\* space after the prefix.
PhonePrefixes == { << >>, <<"0">>, <<"9", "1">>, <<"+", "9", "1">>, <<"+", "9", "1", " ">> }

PhoneFirstDigits == {"0", "1", "5", "6", "9"}

PhoneRests ==
    { <<"8", "7", "6", "5", "4", "3", "2", "1", "0">>,
      <<"8", "7", "6", "-", "5", "4", "3", "2", "1", "0">>,
      <<"8", "7", "6", "5", "4", "3", "2", "1">> }

Phones == { pre \o <<first>> \o rest :
              pre \in PhonePrefixes, first \in PhoneFirstDigits, rest \in PhoneRests }

\* validate_phone applied to a phone and, when accepted, to its normalized
\* value.
ValidatePhoneCall ==
    /\ sfOut = Pending
    /\ sfIn.op = "validate_phone"
    /\ sfOut' = [ op |-> "validate_phone",
                  first |-> validate_phone(sfIn.phone),
                  again |-> validate_phone(validate_phone(sfIn.phone).normalized) ]
    /\ UNCHANGED sfIn
    /\ UNCHANGED <<storeVars, clientVars, engineVars, resilienceVars, auditVars>>

\* check_intent_confidence applied to an intent and a confidence.
CheckIntentConfidenceCall ==
    /\ sfOut = Pending
    /\ sfIn.op = "check_intent_confidence"
    /\ sfOut' = [ op |-> "check_intent_confidence",
                  action |-> CheckIntentConfidence(sfIn.intent, sfIn.confidence).action ]
    /\ UNCHANGED sfIn
    /\ UNCHANGED <<storeVars, clientVars, engineVars, resilienceVars, auditVars>>

\* Every intent with a threshold of its own, and two without.
ThresholdIntents ==
    { "REGISTER_PATIENT", "BOOK_APPOINTMENT", "REPORT_EMERGENCY", "REQUEST_BED_ALLOCATION",
      "CANCEL_APPOINTMENT", "OPD_CHECKIN", "UNCLEAR" }

\* Confidences around every threshold.
ThresholdConfidences == {39, 40, 49, 50, 51, 64, 65, 66, 74, 75, 76, 79, 80, 81, 84, 85, 86}

-----------------------------------------------------------------------------
(* Retries: conversation/retry_handler.py (RetryHandler)                   *)
(* Delays are in tenths of a second.                                       *)

\* RetryConfig: the presets llm (3, 1.0, 10.0), his_api (2, 0.5, 5.0) and
\* speech (2, 0.5, 3.0) and their neighbours, with the default
\* exponential_base and retryable_exceptions.
RetryConfigs ==
    { [ max_retries |-> n, base_delay |-> d[1], max_delay |-> d[2], exponential_base |-> 2,
        retryable_exceptions |-> {"ConnectionError", "TimeoutError"} ] :
      n \in 0..MaxRetries, d \in {<<10, 100>>, <<5, 50>>, <<5, 30>>, <<10, 30>>} }

\* RETRY_CONFIGS["his_api"].max_retries
HisApiRetries == 2

\* What one invocation of the callable does: it returns, or raises.
CallOutcomes == {"ok", "ConnectionError", "TimeoutError", "ValueError"}

RECURSIVE Power(_, _)
Power(base, n) == IF n = 0 THEN 1 ELSE base * Power(base, n - 1)

Min(a, b) == IF a <= b THEN a ELSE b

\* RetryHandler._calculate_delay
CalculateDelay(config, attempt) ==
    Min(config.base_delay * Power(config.exponential_base, attempt), config.max_delay)

\* A RetryHandler._is_retryable that takes every exception.
IsRetryableAny(config, exception) == TRUE

\* RetryHandler._is_retryable
IsRetryable(config, exception) == exception \in config.retryable_exceptions

\* No execute call.
NoRetry == [at |-> "idle"]

\* execute entered: the loop is at attempt 0 and nothing has happened.
NewRetry(config) ==
    [ at |-> "calling", config |-> config, attempt |-> 0, trace |-> << >>,
      returned |-> None, raised |-> None ]

CallEvent(outcome) == [kind |-> "call", outcome |-> outcome]

SleepEvent(delay) == [kind |-> "sleep", delay |-> delay]

\* One pass of the loop of execute: the callable is invoked; its result is
\* returned, or its exception is raised at once when not retryable, or
\* execute sleeps and goes on to the next attempt, or, after the last
\* attempt, leaves the loop and raises last_exception.
RetryAttempt(outcome) ==
    /\ retry.at = "calling"
    /\ retry.attempt <= retry.config.max_retries
    /\ retry' =
         IF outcome = "ok"
         THEN [retry EXCEPT !.trace = Append(@, CallEvent(outcome)),
                            !.at = "returned", !.returned = outcome]
         ELSE IF ~IsRetryable(retry.config, outcome)
         THEN [retry EXCEPT !.trace = Append(@, CallEvent(outcome)),
                            !.at = "raised", !.raised = outcome]
         ELSE IF retry.attempt < retry.config.max_retries
         THEN [retry EXCEPT !.trace = @ \o << CallEvent(outcome),
                                SleepEvent(CalculateDelay(retry.config, retry.attempt)) >>,
                            !.attempt = @ + 1]
         ELSE [retry EXCEPT !.trace = Append(@, CallEvent(outcome)),
                            !.at = "raised", !.raised = outcome]
    /\ UNCHANGED breaker
    /\ UNCHANGED <<storeVars, safetyVars, clientVars, engineVars, auditVars>>

-----------------------------------------------------------------------------
(* Circuit breaker: conversation/retry_handler.py (CircuitBreaker)         *)

\* Coroutines that can be inside CircuitBreaker.execute at the same time.
BreakerSlots == {"b1", "b2"}

\* No breaker made.
NoBreaker == [state |-> "none"]

\* _last_failure_time = None
NoFailureTime == -1

\* CircuitBreaker.__init__, with no execute call yet.
NewBreaker ==
    [ state |-> "closed", failures |-> 0, last_failure_time |-> NoFailureTime,
      calls |-> [slot \in BreakerSlots |-> "idle"],
      last |-> [op |-> "init", before |-> "closed", elapsed |-> 0, failures |-> 0] ]

\* time.time() - self._last_failure_time; a time of failure is never 0 on
\* the wall clock, so every recorded time counts as set.
Elapsed(b, t) == IF b.last_failure_time = NoFailureTime THEN 0 ELSE t - b.last_failure_time

\* The is_open property: the state it leaves and whether it answered True.
IsOpen(b, t) ==
    IF b.state = "open"
    THEN IF b.last_failure_time # NoFailureTime /\ Elapsed(b, t) >= recovery_timeout
         THEN [state |-> "half-open", open |-> FALSE]
         ELSE [state |-> "open", open |-> TRUE]
    ELSE [state |-> b.state, open |-> FALSE]

\* CircuitBreaker.record_success
RecordSuccess(b) ==
    [b EXCEPT !.failures = 0,
              !.state = IF b.state = "half-open" THEN "closed" ELSE b.state]

\* CircuitBreaker.record_failure
RecordFailure(b, t) ==
    IF b.failures + 1 >= failure_threshold
    THEN [b EXCEPT !.failures = @ + 1, !.state = "open", !.last_failure_time = t]
    ELSE [b EXCEPT !.failures = @ + 1]

\* What the breaker last did: the call, the state it found, the time since
\* the last failure and the failure count it found.
BreakerEvent(op, b, t) ==
    [op |-> op, before |-> b.state, elapsed |-> Elapsed(b, t), failures |-> b.failures]

\* execute up to the await of the callable: blocked with
\* CircuitBreakerOpenError when is_open, else the callable is invoked.
BreakerBegin(slot) ==
    /\ breaker.state # "none"
    /\ breaker.calls[slot] = "idle"
    /\ breaker' =
         IF IsOpen(breaker, now).open
         THEN [breaker EXCEPT !.last = BreakerEvent("blocked", breaker, now)]
         ELSE [breaker EXCEPT !.state = IsOpen(breaker, now).state,
                              !.calls[slot] = "running",
                              !.last = BreakerEvent("invoked", breaker, now)]
    /\ UNCHANGED retry
    /\ UNCHANGED <<storeVars, safetyVars, clientVars, engineVars, auditVars>>

\* The callable returns or raises: record_success or record_failure.
BreakerEnd(slot, ok) ==
    /\ breaker.state # "none"
    /\ breaker.calls[slot] = "running"
    /\ breaker' =
         [ (IF ok THEN RecordSuccess(breaker) ELSE RecordFailure(breaker, now))
           EXCEPT !.calls[slot] = "idle",
                  !.last = BreakerEvent(IF ok THEN "success" ELSE "failure", breaker, now) ]
    /\ UNCHANGED retry
    /\ UNCHANGED <<storeVars, safetyVars, clientVars, engineVars, auditVars>>

ResilienceIdle ==
    /\ retry = NoRetry
    /\ breaker = NoBreaker

-----------------------------------------------------------------------------
(* Access control: security/__init__.py (RBACEnforcer) *)
(* "METHOD /a/b" is the sequence <<"METHOD", "a", "b">>.  Every "*" of the   *)
(* patterns stands between "/" and the next "/" or the end, where fnmatch  *)
(* lets it match any text, "/" included: one or more whole segments.       *)

ALLOWED_ENDPOINTS ==
    { <<"POST", "auth", "login">>,
      <<"GET", "patients", "*">>,
      <<"POST", "patients">>,
      <<"PUT", "patients", "*">>,
      <<"GET", "departments">>,
      <<"GET", "departments", "*">>,
      <<"POST", "opd", "appointments">>,
      <<"GET", "opd", "appointments", "*">>,
      <<"PUT", "opd", "appointments", "*">>,
      <<"PUT", "opd", "appointments", "*", "checkin">>,
      <<"DELETE", "opd", "appointments", "*">>,
      <<"GET", "opd", "queue">>,
      <<"GET", "beds">>,
      <<"GET", "beds", "availability">>,
      <<"POST", "beds", "allocate">>,
      <<"POST", "emergency", "cases">>,
      <<"GET", "emergency", "cases", "*">>,
      <<"GET", "lab", "tests">>,
      <<"GET", "lab", "orders", "*">>,
      <<"GET", "billing", "patients", "*">> }

DENIED_ENDPOINTS ==
    { <<"DELETE", "patients", "*">>,
      <<"POST", "lab", "orders">>,
      <<"PUT", "lab", "orders", "*">>,
      <<"POST", "users">>,
      <<"PUT", "users", "*">>,
      <<"DELETE", "*">> }

\* fnmatch.fnmatch(endpoint, pattern)
RECURSIVE MatchesPattern(_, _)
MatchesPattern(endpoint, pattern) ==
    IF pattern = << >> THEN endpoint = << >>
    ELSE IF Head(pattern) = "*"
         THEN \E k \in 1..Len(endpoint) :
                  MatchesPattern(SubSeq(endpoint, k + 1, Len(endpoint)), Tail(pattern))
         ELSE /\ endpoint # << >>
              /\ Head(endpoint) = Head(pattern)
              /\ MatchesPattern(Tail(endpoint), Tail(pattern))

\* An is_allowed that reads the allow list first.
IsAllowedAllowFirst(method, endpoint) ==
    \E allowed \in ALLOWED_ENDPOINTS : MatchesPattern(<<method>> \o endpoint, allowed)

\* RBACEnforcer.is_allowed: explicit denies first, then the allow list,
\* then deny.
IsAllowed(method, endpoint) ==
    LET full_endpoint == <<method>> \o endpoint IN
    IF \E denied \in DENIED_ENDPOINTS : MatchesPattern(full_endpoint, denied)
    THEN FALSE
    ELSE \E allowed \in ALLOWED_ENDPOINTS : MatchesPattern(full_endpoint, allowed)

\* The methods and endpoints is_allowed is asked about: those of the
\* client, and paths of the resources the lists name.
RbacMethods == {"GET", "POST", "PUT", "DELETE"}

RbacEndpoints ==
    { <<"auth", "login">>, <<"patients">>, <<"patients", "search">>, <<"patients", "id1">>,
      <<"departments">>, <<"departments", "id1", "doctors">>, <<"opd", "appointments">>,
      <<"opd", "appointments", "id1">>, <<"opd", "appointments", "id1", "checkin">>,
      <<"opd", "queue">>, <<"beds">>, <<"beds", "availability">>, <<"beds", "allocate">>,
      <<"ipd", "admissions">>, <<"ipd", "requests">>, <<"emergency", "cases">>,
      <<"emergency", "cases", "id1">>, <<"emergency", "queue">>, <<"lab", "tests">>,
      <<"lab", "orders">>, <<"lab", "orders", "id1">>, <<"billing", "patient", "id1">>,
      <<"billing", "patients", "id1">>, <<"users">>, <<"users", "id1">> }

\* is_allowed applied to a method and an endpoint.
IsAllowedCall ==
    /\ sfOut = Pending
    /\ sfIn.op = "is_allowed"
    /\ sfOut' = [op |-> "is_allowed", allowed |-> IsAllowed(sfIn.method, sfIn.endpoint)]
    /\ UNCHANGED sfIn
    /\ UNCHANGED <<storeVars, clientVars, engineVars, resilienceVars, auditVars>>

-----------------------------------------------------------------------------
(* Backend client: integration/his_client.py, and the patient-portal      *)
(* requests of orchestration/workflows/patient_portal.py                   *)

\* The requests the methods of HISClient make; "id1" is an identifier
\* formatted into the path.
HISCalls ==
    { [method |-> "GET",  endpoint |-> <<"patients", "search">>],
      [method |-> "GET",  endpoint |-> <<"patients", "id1">>],
      [method |-> "POST", endpoint |-> <<"patients">>],
      [method |-> "GET",  endpoint |-> <<"departments">>],
      [method |-> "GET",  endpoint |-> <<"departments", "id1", "doctors">>],
      [method |-> "POST", endpoint |-> <<"opd", "appointments">>],
      [method |-> "GET",  endpoint |-> <<"opd", "appointments">>],
      [method |-> "PUT",  endpoint |-> <<"opd", "appointments", "id1", "checkin">>],
      [method |-> "GET",  endpoint |-> <<"opd", "queue">>],
      [method |-> "GET",  endpoint |-> <<"beds", "availability">>],
      [method |-> "GET",  endpoint |-> <<"beds">>],
      [method |-> "POST", endpoint |-> <<"beds", "allocate">>],
      [method |-> "POST", endpoint |-> <<"ipd", "admissions">>],
      [method |-> "GET",  endpoint |-> <<"ipd", "requests">>],
      [method |-> "POST", endpoint |-> <<"emergency", "cases">>],
      [method |-> "GET",  endpoint |-> <<"emergency", "queue">>],
      [method |-> "GET",  endpoint |-> <<"lab", "tests">>],
      [method |-> "GET",  endpoint |-> <<"lab", "orders">>],
      [method |-> "GET",  endpoint |-> <<"billing", "patient", "id1">>] }

\* The requests PatientPortalWorkflow makes through _make_portal_request.
PortalCalls ==
    { [method |-> "GET",  endpoint |-> <<"appointments", "departments">>],
      [method |-> "GET",  endpoint |-> <<"appointments", "doctors?departmentId=id1">>],
      [method |-> "GET",  endpoint |-> <<"appointments", "slots?doctorId=id1&date=d1">>],
      [method |-> "POST", endpoint |-> <<"appointments">>],
      [method |-> "GET",  endpoint |-> <<"appointments">>] }

\* Coroutines that use the client at the same time.
Callers == {"c1", "c2"}

\* Ticks a token is taken to be valid after a login (23 hours).
TokenLifetime == 2

\* _token_expiry before the first login.
NoExpiry == -1

\* What a 200 login response carries as accessToken / token.
LoginTokens == {"tok", None}

NoCall == [method |-> None, endpoint |-> << >>]

\* A caller outside _request; inside it, sent counts the times its request
\* has gone out and logins the POST /auth/login calls made for it.
IdleCaller == [at |-> "idle", request |-> NoCall, sent |-> 0, logins |-> 0]

\* HISClient.is_authenticated
IsAuthenticated(tok, expiry, t) ==
    IF ~Truthy(tok) THEN FALSE
    ELSE IF expiry # NoExpiry /\ t >= expiry THEN FALSE
    ELSE TRUE

ClientIdle ==
    /\ token = None
    /\ token_expiry = NoExpiry
    /\ callers = [c \in Callers |-> IdleCaller]

\* After start-up: main.lifespan has awaited authenticate() once, which
\* either stored a token or returned False.
InitClient ==
    /\ \/ token = "tok" /\ token_expiry = TokenLifetime
       \/ token = None /\ token_expiry = NoExpiry
    /\ callers = [c \in Callers |-> IdleCaller]

ClientFrame == UNCHANGED <<sessions, issued, ret, safetyVars, engineVars, resilienceVars, auditVars>>

\* _request up to its first suspension: _ensure_authenticated reads
\* is_authenticated; a caller that finds no valid token posts /auth/login
\* and waits for the response, any other sends its request.
BeginRequest(c, req) ==
    /\ callers[c].at = "idle"
    /\ callers' = [callers EXCEPT ![c] =
           IF IsAuthenticated(token, token_expiry, now)
           THEN [at |-> "request", request |-> req, sent |-> 1, logins |-> 0]
           ELSE [at |-> "login", request |-> req, sent |-> 0, logins |-> 1]]
    /\ UNCHANGED <<token, token_expiry, now>>
    /\ ClientFrame

\* authenticate resumes with the login response.  A 200 stores the token
\* and its expiry; any other status returns False, which
\* _ensure_authenticated discards; either way _request goes on to send the
\* request.  A transport error is raised to the caller.
LoginResponse(c, status, body_token) ==
    /\ callers[c].at = "login"
    /\ IF status = "200"
       THEN /\ token' = body_token
            /\ token_expiry' = now + TokenLifetime
       ELSE UNCHANGED <<token, token_expiry>>
    /\ callers' = [callers EXCEPT ![c] =
           IF status = "error" THEN IdleCaller
           ELSE [callers[c] EXCEPT !.at = "request", !.sent = @ + 1]]
    /\ UNCHANGED now
    /\ ClientFrame

\* _make_portal_request: the request is sent with the patient's own token.
PortalRequest(c, req) ==
    /\ callers[c].at = "idle"
    /\ callers' = [callers EXCEPT ![c] =
           [at |-> "portal", request |-> req, sent |-> 1, logins |-> 0]]
    /\ UNCHANGED <<token, token_expiry, now>>
    /\ ClientFrame

\* What the backend answers, or how the transport fails.
Statuses == {"200", "401", "timeout", "network"}

\* A finished _request as its caller sees it: the answer, whether the
\* request went out with the token already cached, how often it was sent
\* and how many logins were made for it, and whether it raised.
RequestDone(op, caller, status) ==
    [ op |-> op, sid |-> None, ok |-> status = "200", status |-> status,
      cached |-> caller.logins = 0, sent |-> caller.sent, logins |-> caller.logins ]

\* The backend answers the request (or the transport fails): _request
\* returns the body of a status below 400, raises HISAPIError for any
\* other status and re-raises httpx.RequestError; _make_portal_request
\* returns or raises likewise.
Response(c, status) ==
    /\ callers[c].at \in {"request", "portal"}
    /\ callers' = [callers EXCEPT ![c] = IdleCaller]
    /\ ret' = RequestDone(IF callers[c].at = "portal" THEN "portal_request" ELSE "his_request",
                          callers[c], status)
    /\ UNCHANGED <<token, token_expiry, now>>
    /\ UNCHANGED <<sessions, issued, safetyVars, engineVars, resilienceVars, auditVars>>

NextClient ==
    \/ Tick
    \/ \E c \in Callers, req \in HISCalls : BeginRequest(c, req)
    \/ \E c \in Callers, status \in {"200", "401", "error"}, body_token \in LoginTokens :
           LoginResponse(c, status, body_token)
    \/ \E c \in Callers, req \in PortalCalls : PortalRequest(c, req)
    \/ \E c \in Callers, status \in Statuses : Response(c, status)

-----------------------------------------------------------------------------
(* Workflows: orchestration/workflows/*.py *)
(* Entity and state dicts hold strings: True is "True", an empty list is   *)
(* "", identifiers and names are tokens.  The text of an utterance is a    *)
(* string and Words gives its words.  A workflow is the set of the         *)
(* WorkflowResults it can return, one for each way the backend can answer  *)
(* the requests it sends.                                                  *)

\* a or b
Or(a, b) == IF Truthy(a) THEN a ELSE b

\* d.get(k, {})
GetDict(d, k) == IF k \in DOMAIN d THEN d[k] ELSE EmptyDict

\* What callers say.
Words(user_input) ==
    CASE user_input = "hello"      -> <<"hello">>
      [] user_input = "book"       -> <<"book">>
      [] user_input = "cardiology" -> <<"cardiology">>
      [] user_input = "rao"        -> <<"rao">>
      [] user_input = "tomorrow"   -> <<"tomorrow">>
      [] user_input = "10 am"      -> <<"10", "am">>
      [] user_input = "yes"        -> <<"yes">>
      [] user_input = "no"         -> <<"no">>
      [] user_input = "Chest pain" -> <<"Chest", "pain">>
      [] user_input = "asdf"       -> <<"asdf">>
      [] user_input = "bye"        -> <<"bye">>
      [] user_input = "neurology"  -> <<"neurology">>
      [] user_input = "today"      -> <<"today">>
      [] user_input = "register"   -> <<"register">>
      [] user_input = "My phone is 12345" -> <<"My", "phone", "is", "12345">>
      [] user_input = "Amit"       -> <<"Amit">>
      [] user_input = "bed"        -> <<"bed">>
      [] user_input = "bill"       -> <<"bill">>
      [] user_input = "P1001"      -> <<"P1001">>
      [] user_input = "cancel"     -> <<"cancel">>
      [] OTHER                     -> << >>

\* word in user_input.lower(), for a word no word of the vocabulary
\* contains as a proper part
InInput(word, user_input) == Occurs(<<word>>, Lower(Words(user_input)))

\* The requests the workflows send.
SearchPatients == [method |-> "GET", endpoint |-> <<"patients", "search">>]

GetDepartments == [method |-> "GET", endpoint |-> <<"departments">>]

GetDepartmentDoctors == [method |-> "GET", endpoint |-> <<"departments", "id1", "doctors">>]

CreateAppointment == [method |-> "POST", endpoint |-> <<"opd", "appointments">>]

CreateEmergencyCase == [method |-> "POST", endpoint |-> <<"emergency", "cases">>]

\* WorkflowResult; response names the reply text, requests is the set of
\* backend requests sent while producing it.
WorkflowResult(response, is_complete, requires_human, updated_context, requests) ==
    [ response        |-> response,
      is_complete     |-> is_complete,
      requires_human  |-> requires_human,
      updated_context |-> updated_context,
      requests        |-> requests ]

\* The two replies that send the caller to the Emergency entrance / 108.
EmergencyReplies == {"emergency_team_alerted", "emergency_come_directly"}

\* EscalationWorkflow._handle_emergency
HandleEmergency(entities, context) ==
    LET patient_name == Or(Get(entities, "patient_name"), Get(entities, "first_name")) IN
    IF Truthy(patient_name)
    THEN { \* create_emergency_case answered
           WorkflowResult("emergency_team_alerted", TRUE, TRUE, EmptyDict, {CreateEmergencyCase}),
           \* create_emergency_case raised
           WorkflowResult("emergency_come_directly", TRUE, TRUE, EmptyDict, {CreateEmergencyCase}) }
    ELSE { WorkflowResult("emergency_come_directly", TRUE, TRUE, EmptyDict, {}) }

\* EscalationWorkflow._escalate_to_human
EscalateToHuman(entities, context) ==
    { WorkflowResult("connect_reception", TRUE, TRUE, EmptyDict, {}) }

\* EscalationWorkflow.execute
EscalationExecute(intent, entities, context) ==
    IF intent = "REPORT_EMERGENCY" THEN HandleEmergency(entities, context)
    ELSE EscalateToHuman(entities, context)

\* BaseWorkflow.continue_workflow, which EscalationWorkflow inherits:
\* execute with supported_intents[0] and all the collected entities.
EscalationContinue(new_entities, all_entities, context, is_confirmation, is_denial) ==
    EscalationExecute("ESCALATE_TO_HUMAN", all_entities, context)

\* len(re.sub(r'\D', '', phone)) for the phones callers give
DigitCount(phone) ==
    CASE phone = "9876543210" -> 10
      [] phone = "12345"      -> 5
      [] OTHER                -> 0

\* BaseWorkflow._validate_phone, for phones given without a prefix
ValidatePhone(phone) == IF DigitCount(phone) = 10 THEN phone ELSE None

\* BaseWorkflow._format_date: relative words and ISO dates are understood.
FormatDate(date_str) ==
    CASE date_str = "today"      -> "2026-11-02"
      [] date_str = "tomorrow"   -> "2026-11-03"
      [] date_str = "2026-11-03" -> "2026-11-03"
      [] date_str = "1985-01-15" -> "1985-01-15"
      [] OTHER                   -> None

\* What the backend returns: the patient search_patients finds, the
\* department get_departments lists, the doctor get_department_doctors lists.
FoundPatientId == "pid1"

ListedDepartment == [id |-> "dept1", name |-> "Cardiology", lower |-> "cardiology"]

OtherDepartment == [id |-> "dept2", name |-> "Neurology", lower |-> "neurology"]

\* get_departments' list, and the departments of it whose name holds the
\* one asked for, in the order listed.
ListedDepartments == <<ListedDepartment, OtherDepartment>>

MatchedDepartments(department) ==
    SelectSeq(ListedDepartments, LAMBDA dept : department \in {dept.lower, dept.name})

ListedDoctor == [id |-> "doc1", name |-> "Asha Rao", first |-> "asha", last |-> "rao"]

\* AppointmentBookingWorkflow._book_appointment, steps 5 and 6: the
\* confirmation summary, or create_appointment once confirmed.
BookConfirm(entities, context, patient_id, department, department_id, doctor_id, doctor_name, available_doctors, formatted_date, sent) ==
    LET workflow_state == GetDict(context, "workflow_state")
        is_confirmed == Or(Or(Get(entities, "confirmed"), Get(context, "confirmed")),
                           Get(workflow_state, "confirmed"))
    IN
    IF ~Truthy(is_confirmed)
    THEN { WorkflowResult("confirm_summary", FALSE, FALSE,
               [ step |-> "awaiting_confirmation", patient_id |-> patient_id,
                 department_id |-> department_id, department |-> department,
                 doctor_id |-> doctor_id, doctor_name |-> doctor_name,
                 doctor_offered |-> "True", available_doctors |-> available_doctors,
                 scheduled_date |-> formatted_date ], sent) }
    ELSE { \* create_appointment answered
           WorkflowResult("appointment_confirmed", TRUE, FALSE,
               [appointment |-> "apt1"], sent \cup {CreateAppointment}),
           \* create_appointment raised
           WorkflowResult("could_not_book", FALSE, TRUE, EmptyDict,
               sent \cup {CreateAppointment}) }

\* _book_appointment, step 4: the date.
BookDate(entities, context, patient_id, department, department_id, doctor_id, doctor_name, available_doctors, sent) ==
    LET workflow_state == GetDict(context, "workflow_state")
        preferred_date == Get(entities, "preferred_date")
        formatted == IF Truthy(preferred_date) THEN FormatDate(preferred_date) ELSE None
        formatted_date == IF ~Truthy(formatted) THEN Get(workflow_state, "scheduled_date")
                          ELSE formatted
    IN
    IF ~Truthy(formatted_date)
    THEN { WorkflowResult("ask_date", FALSE, FALSE,
               [ step |-> "need_date", department_id |-> department_id,
                 department |-> department, doctor_id |-> doctor_id,
                 doctor_name |-> doctor_name, doctor_offered |-> "True",
                 available_doctors |-> available_doctors, patient_id |-> patient_id ], sent) }
    ELSE BookConfirm(entities, context, patient_id, department, department_id,
                     doctor_id, doctor_name, available_doctors, formatted_date, sent)

\* _book_appointment, step 3: the doctor, matched against the doctors
\* offered earlier or offered now.
BookDoctor(entities, context, patient_id, department, department_id, sent) ==
    LET workflow_state == GetDict(context, "workflow_state")
        doctor_id0 == Or(Or(Get(entities, "doctor_id"), Get(context, "doctor_id")),
                         Get(workflow_state, "doctor_id"))
        doctor_name0 == Or(Get(entities, "doctor_name"), Get(workflow_state, "doctor_name"))
        available_doctors == Or(Or(Get(workflow_state, "available_doctors"),
                                   Get(entities, "available_doctors")), "")
        user_input == Or(Get(entities, "_raw_input"), "")
        matched == /\ ~Truthy(doctor_id0)
                   /\ Truthy(available_doctors)
                   /\ \/ InInput(ListedDoctor.first, user_input)
                      \/ InInput(ListedDoctor.last, user_input)
                      \/ InInput("yes", user_input)
                      \/ InInput("book", user_input)
        doctor_id == IF matched THEN ListedDoctor.id ELSE doctor_id0
        doctor_name == IF matched THEN ListedDoctor.name ELSE doctor_name0
        doctor_offered == Or(Get(context, "doctor_offered"), Get(workflow_state, "doctor_offered"))
        onward(requests) == BookDate(entities, context, patient_id, department, department_id,
                                     doctor_id, doctor_name, available_doctors, requests)
    IN
    IF Truthy(department_id) /\ ~Truthy(doctor_id) /\ ~Truthy(doctor_offered)
    THEN { \* get_department_doctors returned a doctor
           WorkflowResult("offer_doctors", FALSE, FALSE,
               [ step |-> "select_doctor", available_doctors |-> "one_doctor",
                 doctor_offered |-> "True", department_id |-> department_id,
                 department |-> department, patient_id |-> patient_id ],
               sent \cup {GetDepartmentDoctors}) }
         \* get_department_doctors returned none, or raised
         \cup onward(sent \cup {GetDepartmentDoctors})
    ELSE onward(sent)

\* _book_appointment, step 2: the department.
BookDepartment(entities, context, patient_id, phone, sent) ==
    LET collected == GetDict(context, "collected_entities")
        workflow_state == GetDict(context, "workflow_state")
        department == Or(Or(Or(Get(entities, "department"), Get(context, "department")),
                            Get(collected, "department")), Get(workflow_state, "department"))
        department_id == Or(Or(Or(Get(entities, "department_id"), Get(context, "department_id")),
                               Get(collected, "department_id")),
                            Get(workflow_state, "department_id"))
    IN
    IF ~Truthy(department_id)
    THEN IF Truthy(department)
         THEN \* get_departments lists a department whose name contains the one asked for
              (IF MatchedDepartments(department) # << >>
               THEN BookDoctor(entities, context, patient_id,
                               MatchedDepartments(department)[1].name,
                               MatchedDepartments(department)[1].id,
                               sent \cup {GetDepartments})
               ELSE { WorkflowResult("department_not_found", FALSE, FALSE,
                          [ step |-> "select_department",
                            available_departments |-> "one_department",
                            phone |-> phone, patient_id |-> patient_id ],
                          sent \cup {GetDepartments}) })
              \* get_departments raised
              \cup { WorkflowResult("ask_date", FALSE, FALSE,
                         [ step |-> "need_date", phone |-> phone, patient_id |-> patient_id,
                           department |-> department ], sent \cup {GetDepartments}) }
         ELSE { WorkflowResult("ask_department", FALSE, FALSE,
                    [ step |-> "need_department", phone |-> phone, patient_id |-> patient_id ],
                    sent) }
    ELSE BookDoctor(entities, context, patient_id, department, department_id, sent)

\* AppointmentBookingWorkflow._book_appointment, from step 1: the patient.
BookAppointment(entities, context) ==
    LET collected == GetDict(context, "collected_entities")
        workflow_state == GetDict(context, "workflow_state")
        patient == Or(Or(Get(context, "patient"), Get(collected, "patient")),
                      Get(workflow_state, "patient"))
        patient_id == Or(Or(Or(Get(entities, "patient_id"), Get(context, "patient_id")),
                            Get(collected, "patient_id")), Get(workflow_state, "patient_id"))
        phone == Or(Or(Or(Get(entities, "phone"), Get(context, "phone")),
                       Get(collected, "phone")), Get(workflow_state, "phone"))
    IN
    IF ~Truthy(patient) /\ ~Truthy(patient_id)
    THEN IF Truthy(phone)
         THEN IF Truthy(ValidatePhone(phone))
              THEN \* search_patients found the patient
                   BookDepartment(entities, context, FoundPatientId, phone, {SearchPatients})
                   \* search_patients found nobody
                   \cup { WorkflowResult("no_patient_found", FALSE, FALSE,
                              [step |-> "no_patient_found", phone |-> phone], {SearchPatients}) }
                   \* search_patients raised
                   \cup { WorkflowResult("ask_department", FALSE, FALSE,
                              [step |-> "need_department", phone |-> phone], {SearchPatients}) }
              ELSE BookDepartment(entities, context, patient_id, phone, {})
         ELSE { WorkflowResult("ask_patient_id", FALSE, FALSE,
                    [step |-> "need_patient_id"], {}) }
    ELSE BookDepartment(entities, context, patient_id, phone, {})

\* AppointmentBookingWorkflow.execute
AppointmentExecute(intent, entities, context) ==
    IF intent = "BOOK_APPOINTMENT" THEN BookAppointment(entities, context)
    ELSE IF intent = "RESCHEDULE_APPOINTMENT"
    THEN { WorkflowResult("reschedule_at_desk", FALSE, TRUE, EmptyDict, {}) }
    ELSE IF intent = "CANCEL_APPOINTMENT"
    THEN { WorkflowResult("cancel_at_desk", FALSE, TRUE, EmptyDict, {}) }
    ELSE { WorkflowResult("not_sure_appointment", FALSE, FALSE, EmptyDict, {}) }

\* AppointmentBookingWorkflow.continue_workflow
AppointmentContinue(new_entities, all_entities, context, is_confirmation, is_denial) ==
    LET workflow_state == GetDict(context, "workflow_state")
        step == Or(Get(workflow_state, "step"), "")
        merged_entities == Merge(Merge(workflow_state, all_entities), new_entities)
    IN
    IF step = "awaiting_confirmation" /\ is_confirmation
    THEN BookAppointment(Merge(merged_entities, [confirmed |-> "True"]), context)
    ELSE IF step = "awaiting_confirmation" /\ is_denial
    THEN { WorkflowResult("choose_different", FALSE, FALSE, [step |-> "restart"], {}) }
    ELSE BookAppointment(merged_entities, context)

\* The requests the registration, bed and status workflows send.
CreatePatient == [method |-> "POST", endpoint |-> <<"patients">>]

GetBedAvailability == [method |-> "GET", endpoint |-> <<"beds", "availability">>]

GetBeds == [method |-> "GET", endpoint |-> <<"beds">>]

GetLabOrders == [method |-> "GET", endpoint |-> <<"lab", "orders">>]

GetPatientBills == [method |-> "GET", endpoint |-> <<"billing", "patient", "id1">>]

GetAppointments == [method |-> "GET", endpoint |-> <<"opd", "appointments">>]

\* INTENT_CONFIGS[REGISTER_PATIENT].required_entities
RequiredEntities == <<"first_name", "last_name", "phone", "date_of_birth", "gender">>

\* BaseWorkflow._get_missing_required_fields for REGISTER_PATIENT
GetMissingRequiredFields(entities) ==
    SelectSeq(RequiredEntities, LAMBDA field : ~Truthy(Get(entities, field)))

\* BaseWorkflow._get_next_prompt for REGISTER_PATIENT: the follow-up prompt
\* of the first missing field.
GetNextPrompt(missing_fields) ==
    CASE missing_fields[1] = "first_name"    -> "ask_first_name"
      [] missing_fields[1] = "last_name"     -> "ask_last_name"
      [] missing_fields[1] = "phone"         -> "ask_phone"
      [] missing_fields[1] = "date_of_birth" -> "ask_date_of_birth"
      [] OTHER                               -> "ask_gender"

\* The replies of the registration workflow that ask for a field.
RegistrationPrompts ==
    {"ask_first_name", "ask_last_name", "ask_phone", "ask_date_of_birth", "ask_gender"}

\* PatientRegistrationWorkflow._register_patient
RegisterPatient(entities, context) ==
    LET missing == GetMissingRequiredFields(entities)
        phone == ValidatePhone(Or(Get(entities, "phone"), ""))
        dob == FormatDate(Or(Get(entities, "date_of_birth"), ""))
        workflow_state == GetDict(context, "workflow_state")
        is_confirmed == Or(Or(Get(entities, "confirmed"), Get(context, "confirmed")),
                           Get(workflow_state, "confirmed"))
    IN
    IF missing # << >>
    THEN { WorkflowResult(GetNextPrompt(missing), FALSE, FALSE,
               [ step |-> "collecting_info", missing_fields |-> missing,
                 collected |-> entities ], {}) }
    ELSE IF ~Truthy(phone)
    THEN { WorkflowResult("phone_not_valid", FALSE, FALSE, [step |-> "fix_phone"], {}) }
    ELSE IF ~Truthy(dob)
    THEN { WorkflowResult("dob_not_understood", FALSE, FALSE, [step |-> "fix_dob"], {}) }
    ELSE IF ~Truthy(is_confirmed)
    THEN { WorkflowResult("confirm_details", FALSE, FALSE,
               [ step |-> "awaiting_confirmation", validated_phone |-> phone,
                 validated_dob |-> dob, first_name |-> Get(entities, "first_name"),
                 last_name |-> Get(entities, "last_name"), gender |-> Get(entities, "gender"),
                 email |-> Get(entities, "email"), address |-> Get(entities, "address") ],
               {}) }
    ELSE { \* create_patient answered
           WorkflowResult("registration_complete", TRUE, FALSE,
               [patient |-> "pat1", patient_id |-> FoundPatientId, patient_uhid |-> "uhid1"],
               {CreatePatient}),
           \* create_patient raised
           WorkflowResult("issue_creating_record", FALSE, TRUE, EmptyDict, {CreatePatient}) }

\* PatientRegistrationWorkflow.execute, for the intents of callers' turns
\* (none is classified FIND_PATIENT).
RegistrationExecute(intent, entities, context) ==
    IF intent = "REGISTER_PATIENT" THEN RegisterPatient(entities, context)
    ELSE { WorkflowResult("not_sure_patient_request", FALSE, FALSE, EmptyDict, {}) }

\* PatientRegistrationWorkflow.continue_workflow
RegistrationContinue(new_entities, all_entities, context, is_confirmation, is_denial) ==
    LET workflow_state == GetDict(context, "workflow_state")
        step == Or(Get(workflow_state, "step"), "")
        merged_entities == Merge(Merge(workflow_state, all_entities), new_entities)
    IN
    IF step = "awaiting_confirmation" /\ is_confirmation
    THEN RegisterPatient(Merge(merged_entities, [confirmed |-> "True"]), context)
    ELSE IF step = "awaiting_confirmation" /\ is_denial
    THEN { WorkflowResult("start_over", FALSE, FALSE,
               [step |-> "collecting_info", collected |-> EmptyDict], {}) }
    ELSE IF step = "offer_registration" /\ is_confirmation
    THEN { WorkflowResult("lets_register", FALSE, FALSE, [step |-> "collecting_info"], {}) }
    ELSE RegisterPatient(merged_entities, context)

\* BedAllocationWorkflow._check_availability
CheckAvailability(entities, context) ==
    { \* both fetches answered
      WorkflowResult("beds_available", TRUE, FALSE, [available_beds |-> "beds"],
                     {GetBedAvailability, GetBeds}),
      \* get_bed_availability raised
      WorkflowResult("could_not_check_beds", FALSE, TRUE, EmptyDict, {GetBedAvailability}),
      \* get_beds raised
      WorkflowResult("could_not_check_beds", FALSE, TRUE, EmptyDict,
                     {GetBedAvailability, GetBeds}) }

\* BedAllocationWorkflow._request_allocation
RequestAllocation(entities, context) ==
    IF ~Truthy(Or(Get(entities, "patient_id"), Get(context, "patient_id")))
    THEN { WorkflowResult("need_patient_for_bed", FALSE, FALSE, [step |-> "need_patient"], {}) }
    ELSE { WorkflowResult("bed_needs_approval", FALSE, TRUE, EmptyDict, {}) }

\* BedAllocationWorkflow.execute
BedExecute(intent, entities, context) ==
    IF intent = "CHECK_BED_AVAILABILITY" THEN CheckAvailability(entities, context)
    ELSE RequestAllocation(entities, context)

\* BaseWorkflow.continue_workflow, which BedAllocationWorkflow inherits:
\* execute with supported_intents[0] and all the collected entities.
BedContinue(new_entities, all_entities, context, is_confirmation, is_denial) ==
    BedExecute("CHECK_BED_AVAILABILITY", all_entities, context)

\* StatusInquiryWorkflow._check_lab_status
CheckLabStatus(patient_id, sent) ==
    { WorkflowResult("lab_status", TRUE, FALSE, EmptyDict, sent \cup {GetLabOrders}),
      \* get_lab_orders raised
      WorkflowResult("could_not_check_lab", FALSE, FALSE, EmptyDict, sent \cup {GetLabOrders}) }

\* StatusInquiryWorkflow._check_bill_status
CheckBillStatus(patient_id, sent) ==
    { WorkflowResult("bill_status", TRUE, FALSE, EmptyDict, sent \cup {GetPatientBills}),
      \* get_patient_bills raised
      WorkflowResult("could_not_check_bills", FALSE, FALSE, EmptyDict,
                     sent \cup {GetPatientBills}) }

\* StatusInquiryWorkflow._check_appointment_status
CheckAppointmentStatus(patient_id, sent) ==
    { WorkflowResult("appointment_status", TRUE, FALSE, EmptyDict, sent \cup {GetAppointments}),
      \* get_appointments raised
      WorkflowResult("could_not_check_appointments", FALSE, FALSE, EmptyDict,
                     sent \cup {GetAppointments}) }

\* StatusInquiryWorkflow.execute once the patient is known
StatusDispatch(intent, patient_id, sent) ==
    IF intent = "CHECK_LAB_STATUS" THEN CheckLabStatus(patient_id, sent)
    ELSE IF intent = "CHECK_BILL_STATUS" THEN CheckBillStatus(patient_id, sent)
    ELSE IF intent = "CHECK_APPOINTMENT_STATUS" THEN CheckAppointmentStatus(patient_id, sent)
    ELSE { WorkflowResult("what_to_check", FALSE, FALSE, EmptyDict, sent) }

\* StatusInquiryWorkflow.execute
StatusExecute(intent, entities, context) ==
    LET patient_id == Or(Get(entities, "patient_id"), Get(context, "patient_id"))
        phone == Get(entities, "phone")
        need_patient == WorkflowResult("need_patient_for_status", FALSE, FALSE,
                                       [step |-> "need_patient"], {})
    IN
    IF Truthy(patient_id) THEN StatusDispatch(intent, patient_id, {})
    ELSE IF Truthy(phone) /\ Truthy(ValidatePhone(phone))
    THEN \* search_patients found the patient
         StatusDispatch(intent, FoundPatientId, {SearchPatients})
         \* search_patients found nobody, or raised
         \cup { [need_patient EXCEPT !.requests = {SearchPatients}] }
    ELSE { need_patient }

\* BaseWorkflow.continue_workflow, which StatusInquiryWorkflow inherits:
\* execute with supported_intents[0] and all the collected entities.
StatusContinue(new_entities, all_entities, context, is_confirmation, is_denial) ==
    StatusExecute("CHECK_LAB_STATUS", all_entities, context)

\* The requests PatientPortalWorkflow sends.
PortalGetDepartments == [method |-> "GET", endpoint |-> <<"appointments", "departments">>]

PortalGetDoctors == [method |-> "GET", endpoint |-> <<"appointments", "doctors?departmentId=id1">>]

PortalGetSlots == [method |-> "GET", endpoint |-> <<"appointments", "slots?doctorId=id1&date=d1">>]

PortalCreateAppointment == [method |-> "POST", endpoint |-> <<"appointments">>]

\* PatientPortalWorkflow._format_date: anything not understood is tomorrow.
PortalFormatDate(date_input) ==
    CASE date_input = "today"      -> "2026-11-02"
      [] date_input = "tomorrow"   -> "2026-11-03"
      [] date_input = "2026-11-03" -> "2026-11-03"
      [] OTHER                     -> "2026-11-03"

\* PatientPortalWorkflow._book_appointment, step 4: confirm and book.
PortalConfirm(entities, context, department_id, department_name, doctor_id, doctor_name, formatted_date, preferred_time, sent) ==
    LET workflow_state == GetDict(context, "workflow_state")
        is_confirmed == Or(Get(entities, "confirmed"), Get(workflow_state, "confirmed"))
    IN
    IF ~Truthy(is_confirmed)
    THEN { WorkflowResult("portal_confirm_summary", FALSE, FALSE,
               [ step |-> "awaiting_confirmation", department_id |-> department_id,
                 department |-> department_name, doctor_id |-> doctor_id,
                 doctor_name |-> doctor_name, scheduled_date |-> formatted_date,
                 scheduled_time |-> preferred_time ], sent) }
    ELSE { \* POST /appointments answered
           WorkflowResult("portal_appointment_confirmed", TRUE, FALSE,
               [appointment |-> "apt1"], sent \cup {PortalCreateAppointment}),
           \* POST /appointments failed
           WorkflowResult("portal_could_not_book", FALSE, FALSE, EmptyDict,
               sent \cup {PortalCreateAppointment}) }

\* _book_appointment, step 3: date and time.
PortalDate(entities, context, department_id, department_name, doctor_id, doctor_name, sent) ==
    LET workflow_state == GetDict(context, "workflow_state")
        preferred_date == Or(Get(entities, "preferred_date"), Get(workflow_state, "scheduled_date"))
        preferred_time == Or(Get(entities, "preferred_time"), Get(workflow_state, "scheduled_time"))
        formatted_date == PortalFormatDate(preferred_date)
        onward(requests) == PortalConfirm(entities, context, department_id, department_name,
                                          doctor_id, doctor_name, formatted_date,
                                          preferred_time, requests)
    IN
    IF ~Truthy(preferred_date)
    THEN { WorkflowResult("portal_ask_date", FALSE, FALSE,
               [ step |-> "need_date", department_id |-> department_id,
                 department |-> department_name, doctor_id |-> doctor_id,
                 doctor_name |-> doctor_name ], sent) }
    ELSE IF ~Truthy(preferred_time)
    THEN { \* the slots request returned a free slot
           WorkflowResult("portal_offer_times", FALSE, FALSE,
               [ step |-> "select_time", available_slots |-> "one_slot",
                 scheduled_date |-> formatted_date, department_id |-> department_id,
                 department |-> department_name, doctor_id |-> doctor_id,
                 doctor_name |-> doctor_name ], sent \cup {PortalGetSlots}),
           \* the slots request returned no free slot
           WorkflowResult("portal_no_slots", FALSE, FALSE,
               [ step |-> "need_date", department_id |-> department_id,
                 doctor_id |-> doctor_id ], sent \cup {PortalGetSlots}) }
         \* the slots request failed
         \cup onward(sent \cup {PortalGetSlots})
    ELSE onward(sent)

\* _book_appointment, step 2: the doctor.
PortalDoctor(entities, context, department_id, department_name, sent) ==
    LET workflow_state == GetDict(context, "workflow_state")
        doctor_id == Or(Get(entities, "doctor_id"), Get(workflow_state, "doctor_id"))
        doctor_name == Or(Get(entities, "doctor_name"), Get(workflow_state, "doctor_name"))
    IN
    IF ~Truthy(doctor_id)
    THEN { \* the doctors request returned a doctor
           WorkflowResult("portal_offer_doctors", FALSE, FALSE,
               [ step |-> "select_doctor", available_doctors |-> "one_doctor",
                 department_id |-> department_id, department |-> department_name ],
               sent \cup {PortalGetDoctors}),
           \* the doctors request failed
           WorkflowResult("portal_no_doctors", FALSE, FALSE, EmptyDict,
               sent \cup {PortalGetDoctors}) }
         \* the doctors request returned none
         \cup PortalDate(entities, context, department_id, department_name, doctor_id,
                         doctor_name, sent \cup {PortalGetDoctors})
    ELSE PortalDate(entities, context, department_id, department_name, doctor_id,
                    doctor_name, sent)

\* PatientPortalWorkflow._book_appointment, from step 1: the department.
PortalBookAppointment(entities, context, patient_token) ==
    LET workflow_state == GetDict(context, "workflow_state")
        department_id == Or(Get(entities, "department_id"), Get(workflow_state, "department_id"))
        department_name == Or(Get(entities, "department"), Get(workflow_state, "department"))
    IN
    IF ~Truthy(department_id)
    THEN { \* the departments request returned a department
           WorkflowResult("portal_offer_departments", FALSE, FALSE,
               [step |-> "select_department", available_departments |-> "one_department"],
               {PortalGetDepartments}),
           \* the departments request returned none, or failed
           WorkflowResult("portal_ask_department", FALSE, FALSE,
               [step |-> "need_department"], {PortalGetDepartments}) }
    ELSE PortalDoctor(entities, context, department_id, department_name, {})

\* PatientPortalWorkflow.execute, reached with channel = patient_portal and
\* a token, for BOOK_APPOINTMENT.
PortalExecute(intent, entities, context) ==
    IF Get(context, "channel") # "patient_portal"
    THEN { WorkflowResult("portal_can_help", FALSE, FALSE, context, {}) }
    ELSE IF ~Truthy(Get(context, "patient_token"))
    THEN { WorkflowResult("portal_log_in", FALSE, FALSE, EmptyDict, {}) }
    ELSE PortalBookAppointment(entities, context, Get(context, "patient_token"))

PortalConfirmationWords ==
    { <<"yes">>, <<"yeah">>, <<"yep">>, <<"sure">>, <<"ok">>, <<"okay">>, <<"confirm">>,
      <<"book">>, <<"please">>, <<"do", "it">>, <<"go", "ahead">> }

PortalDenialWords ==
    { <<"no">>, <<"nope">>, <<"cancel">>, <<"stop">>, <<"don't">>, <<"not", "now">> }

\* PatientPortalWorkflow.continue_workflow.  No text callers say here
\* contains "next" or ":", and none names an hour without am or pm, so
\* those branches of the date and time steps are left out.
PortalContinue(new_entities, all_entities, context, is_confirmation, is_denial) ==
    LET workflow_state == GetDict(context, "workflow_state")
        step == Or(Get(workflow_state, "step"), "")
        patient_token == Get(context, "patient_token")
        user_input == Or(Get(new_entities, "_raw_input"), "")
        text == Lower(Words(user_input))
        merged0 == Merge(Merge(workflow_state, all_entities), new_entities)
        department == IF step = "select_department"
                         /\ (InInput(ListedDepartment.lower, user_input) \/ text = << >>)
                      THEN [department_id |-> ListedDepartment.id,
                            department |-> ListedDepartment.name]
                      ELSE EmptyDict
        doctor == IF step = "select_doctor"
                     /\ (InInput(ListedDoctor.first, user_input)
                         \/ InInput(ListedDoctor.last, user_input))
                  THEN [doctor_id |-> ListedDoctor.id, doctor_name |-> ListedDoctor.name]
                  ELSE EmptyDict
        date == IF step = "need_date" /\ InInput("today", user_input)
                THEN [preferred_date |-> "today"]
                ELSE IF step = "need_date" /\ InInput("tomorrow", user_input)
                THEN [preferred_date |-> "tomorrow"]
                ELSE EmptyDict
        time == IF step = "select_time"
                   /\ (InInput("am", user_input) \/ InInput("pm", user_input))
                THEN [preferred_time |-> user_input]
                ELSE EmptyDict
        is_confirmed == is_confirmation \/ \E w \in PortalConfirmationWords : Occurs(w, text)
        is_denied == is_denial \/ \E w \in PortalDenialWords : Occurs(w, text)
        confirmed == IF step = "awaiting_confirmation" /\ is_confirmed /\ ~is_denied
                     THEN [confirmed |-> "True"]
                     ELSE EmptyDict
        merged_entities == Merge(Merge(Merge(Merge(Merge(merged0, department), doctor),
                                             date), time), confirmed)
        updated_context == Merge(context, [workflow_state |-> merged_entities])
    IN
    IF ~Truthy(patient_token)
    THEN { WorkflowResult("portal_session_expired", FALSE, FALSE, EmptyDict, {}) }
    ELSE IF step = "awaiting_confirmation" /\ ~(is_confirmed /\ ~is_denied) /\ is_denied
    THEN { WorkflowResult("portal_choose_different", FALSE, FALSE, [step |-> "restart"], {}) }
    ELSE PortalBookAppointment(merged_entities, updated_context, patient_token)

-----------------------------------------------------------------------------
(* Workflow engine: orchestration/workflow_engine.py *)

\* WorkflowEngine._workflows, for the intents callers' turns are classified
\* as: the workflow class that handles an intent ("" for none).
WorkflowOf(intent) ==
    CASE intent \in {"BOOK_APPOINTMENT", "RESCHEDULE_APPOINTMENT", "CANCEL_APPOINTMENT"}
             -> "AppointmentBookingWorkflow"
      [] intent \in {"ESCALATE_TO_HUMAN", "REPORT_EMERGENCY"} -> "EscalationWorkflow"
      [] intent = "REGISTER_PATIENT" -> "PatientRegistrationWorkflow"
      [] intent \in {"CHECK_BED_AVAILABILITY", "REQUEST_BED_ALLOCATION", "REQUEST_ADMISSION"}
             -> "BedAllocationWorkflow"
      [] intent \in {"CHECK_LAB_STATUS", "CHECK_BILL_STATUS", "CHECK_APPOINTMENT_STATUS",
                     "GENERAL_STATUS_INQUIRY"} -> "StatusInquiryWorkflow"
      [] OTHER -> ""

\* workflow.execute
WorkflowExecute(intent, entities, context) ==
    CASE WorkflowOf(intent) = "AppointmentBookingWorkflow"
             -> AppointmentExecute(intent, entities, context)
      [] WorkflowOf(intent) = "PatientRegistrationWorkflow"
             -> RegistrationExecute(intent, entities, context)
      [] WorkflowOf(intent) = "BedAllocationWorkflow" -> BedExecute(intent, entities, context)
      [] WorkflowOf(intent) = "StatusInquiryWorkflow"
             -> StatusExecute(intent, entities, context)
      [] OTHER -> EscalationExecute(intent, entities, context)

\* The intents execute sends to the portal workflow.
PortalIntents ==
    { "BOOK_APPOINTMENT", "RESCHEDULE_APPOINTMENT", "CANCEL_APPOINTMENT",
      "CHECK_APPOINTMENT_STATUS", "GENERAL_STATUS_INQUIRY" }

\* ContextTracker.get_context: {} for a missing or expired session.
GetContext(S, sid, t) ==
    IF GetSessionFound(S, sid, t)
    THEN [ turn_count         |-> turn_count(S[sid]),
           current_workflow   |-> S[sid].current_workflow,
           workflow_state     |-> S[sid].workflow_state,
           collected_entities |-> S[sid].context ]
    ELSE EmptyDict

\* channel == "patient_portal" and patient_token
IsPortal(context) ==
    Get(context, "channel") = "patient_portal" /\ Truthy(Get(context, "patient_token"))

\* A result the engine builds itself.
Direct(response, is_complete) == WorkflowResult(response, is_complete, FALSE, EmptyDict, {})

\* The engine answering a turn itself, without a workflow.
EngineHandler == <<"WorkflowEngine", "execute">>

\* What execute has decided when its workflow returns: the result, the
\* store as the engine left it before calling the workflow, whether the
\* engine's commit follows, and the workflow method that produced the result.
Plan(result, before, commits) ==
    [ result |-> result, before |-> before, commits |-> commits, log |-> {},
      handler |-> EngineHandler ]

\* The plans of a workflow method, one for each result it can return.
WorkflowPlans(results, before, workflow, method) ==
    { [Plan(r, before, TRUE) EXCEPT !.handler = <<workflow, method>>] : r \in results }

\* A log event and the caller's values among its fields.
LogEvent(event, values) == [event |-> event, values |-> values]

\* dict.values()
Values(d) == {d[k] : k \in DOMAIN d}

\* What execute logs on the way into a new workflow: the engine logs the
\* entities, _book_appointment the phone it resolved, _handle_emergency the
\* entities.
ExecuteLog(intent, entities, context) ==
    LET collected == GetDict(context, "collected_entities")
        workflow_state == GetDict(context, "workflow_state")
        phone == Or(Or(Or(Get(entities, "phone"), Get(context, "phone")),
                       Get(collected, "phone")), Get(workflow_state, "phone"))
    IN {LogEvent("WORKFLOW_ENGINE: Executing workflow", Values(entities))}
       \cup (IF intent = "BOOK_APPOINTMENT"
              THEN {LogEvent("APPOINTMENT: Step 1 - Patient lookup", {phone})} ELSE {})
       \cup (IF intent = "REPORT_EMERGENCY"
              THEN {LogEvent("EMERGENCY REPORTED", Values(entities))} ELSE {})

\* The engine's commit after a workflow returns: update_workflow_state when
\* the result carries state, add_turn, clear_workflow when complete.  t and
\* t2 >= t are the clock readings before and after add_turn stamps the turn.
Commit(S, sid, entities, result, t, t2) ==
    LET S1 == IF result.updated_context # EmptyDict
              THEN UpdateWorkflowStateStore(S, sid, result.updated_context, t)
              ELSE S
        S2 == AddTurnStore(S1, sid, entities, t, t2)
    IN IF result.is_complete THEN ClearWorkflowStore(S2, sid, t2) ELSE S2

\* WorkflowEngine._handle_continuation
HandleContinuation(S, sid, intent, entities, context) ==
    LET current_workflow == Get(context, "current_workflow")
        merged_entities == Merge(GetDict(context, "collected_entities"), entities)
        is_confirmation == intent \in {"CONFIRM_YES", "CONFIRM"}
        is_denial == intent \in {"CONFIRM_NO", "DENY"}
        results ==
            IF IsPortal(context)
            THEN PortalContinue(entities, merged_entities, context, is_confirmation, is_denial)
            ELSE IF WorkflowOf(current_workflow) = "AppointmentBookingWorkflow"
            THEN AppointmentContinue(entities, merged_entities, context,
                                     is_confirmation, is_denial)
            ELSE IF WorkflowOf(current_workflow) = "PatientRegistrationWorkflow"
            THEN RegistrationContinue(entities, merged_entities, context,
                                      is_confirmation, is_denial)
            ELSE IF WorkflowOf(current_workflow) = "BedAllocationWorkflow"
            THEN BedContinue(entities, merged_entities, context, is_confirmation, is_denial)
            ELSE IF WorkflowOf(current_workflow) = "StatusInquiryWorkflow"
            THEN StatusContinue(entities, merged_entities, context,
                                is_confirmation, is_denial)
            ELSE EscalationContinue(entities, merged_entities, context,
                                    is_confirmation, is_denial)
    IN
    IF ~Truthy(current_workflow)
    THEN { Plan(Direct("not_sure_what_you_refer_to", FALSE), S, FALSE) }
    ELSE IF ~IsPortal(context) /\ WorkflowOf(current_workflow) = ""
    THEN { Plan(Direct("something_else", FALSE), S, FALSE) }
    ELSE WorkflowPlans(results, S, IF IsPortal(context) THEN "PatientPortalWorkflow"
                                   ELSE WorkflowOf(current_workflow), "continue_workflow")

\* WorkflowEngine.execute up to the return of the workflow it runs.
EnginePlans(S, sid, intent, entities, request_context, t) ==
    LET S0 == GetSessionStore(S, sid, t)
        merged_context == Merge(GetContext(S, sid, t), request_context)
        current_workflow == Get(merged_context, "current_workflow")
    IN
    IF intent = "GREETING" THEN { Plan(Direct("greeting", FALSE), S0, FALSE) }
    ELSE IF intent = "GOODBYE"
    THEN { Plan(Direct("goodbye", TRUE), EndSessionStore(S0, sid, t), FALSE) }
    ELSE IF intent = "HELP" THEN { Plan(Direct("help", FALSE), S0, FALSE) }
    ELSE IF intent = "UNCLEAR" /\ ~Truthy(current_workflow)
    THEN { Plan(Direct("did_not_understand", FALSE), S0, FALSE) }
    ELSE IF IsPortal(merged_context) /\ Truthy(current_workflow)
    THEN HandleContinuation(S0, sid, intent, entities, merged_context)
    ELSE IF intent \in {"CONFIRM_YES", "CONFIRM_NO", "PROVIDE_INFORMATION", "CONFIRM", "DENY"}
    THEN HandleContinuation(S0, sid, intent, entities, merged_context)
    ELSE IF IsPortal(merged_context) /\ intent \in PortalIntents
    THEN WorkflowPlans(PortalExecute(intent, entities, merged_context),
                       SetWorkflowStore(S0, sid, intent, EmptyDict, t),
                       "PatientPortalWorkflow", "execute")
    ELSE IF WorkflowOf(intent) = ""
    THEN { Plan(Direct("not_sure_how_to_help", FALSE), S0, FALSE) }
    ELSE IF Truthy(current_workflow) /\ current_workflow = intent
    THEN HandleContinuation(S0, sid, intent, entities, merged_context)
    ELSE { [plan EXCEPT !.log = ExecuteLog(intent, entities, merged_context)] :
               plan \in WorkflowPlans(WorkflowExecute(intent, entities, merged_context),
                                      SetWorkflowStore(S0, sid, intent, EmptyDict, t),
                                      WorkflowOf(intent), "execute") }

\* The store a plan leaves once the engine has committed it.
Committed(plan, sid, entities, t, t2) ==
    IF plan.commits THEN Commit(plan.before, sid, entities, plan.result, t, t2)
    ELSE plan.before

-----------------------------------------------------------------------------
(* Dialog turns: main.py (process_conversation) *)

\* What the classifier and validate_all hand on for an utterance: the text,
\* the intent and confidence (hundredths) it was classified with, and the
\* entities extracted from it.
Utterance(user_input, intent, confidence, entities) ==
    [user_input |-> user_input, intent |-> intent, confidence |-> confidence,
     entities |-> entities]

Utterances ==
    { Utterance("book", "BOOK_APPOINTMENT", 90,
                [phone |-> "9876543210", department |-> "cardiology",
                 preferred_date |-> "2026-11-03"]),
      Utterance("yes", "CONFIRM_YES", 95, EmptyDict),
      Utterance("Chest pain", "REPORT_EMERGENCY", 90, [patient_name |-> "Ravi"]),
      Utterance("asdf", "UNCLEAR", 30, EmptyDict),
      Utterance("bye", "GOODBYE", 95, EmptyDict) }

\* request.context: none from the phone line, channel and the patient's
\* token from the patient portal.
RequestContexts ==
    { EmptyDict, [channel |-> "patient_portal", patient_token |-> "jwt1"] }

\* context.get("turn_count", 0), context.get("failed_intents", 0)
SafetyContextOf(context) ==
    [ turn_count     |-> IF "turn_count" \in DOMAIN context THEN context.turn_count ELSE 0,
      failed_intents |-> IF "failed_intents" \in DOMAIN context
                         THEN context.failed_intents ELSE 0 ]

\* The safety check of process_conversation on an utterance.
SafetyOf(u, request_context) ==
    GetSafeResponse(u.intent, u.confidence, Words(u.user_input),
                    SafetyContextOf(request_context))

\* intent_override or the classified intent
IntentToUse(u, request_context) == Or(SafetyOf(u, request_context).intent_override, u.intent)

\* The handler itself answering a turn: the clarification reply.
ClarifyHandler == <<"process_conversation", "clarify">>

NoReply ==
    [ sid |-> None, user_input |-> "", entities |-> EmptyDict, intent |-> None,
      handler |-> <<>>,
      live |-> FALSE, workflow_before |-> None,
      portal |-> FALSE, turn_no |-> 0, status |-> 0, response |-> "", requires_human |-> FALSE,
      is_complete |-> FALSE, requests |-> {} ]

\* The turn as recorded: the session it named and whether get_session
\* handed it out when the turn began, the workflow active then, the intent
\* handed to the engine and the method that answered, how many turns have
\* been answered, and the ConversationResponse sent with HTTP 200.
Reply(sid, u, request_context, handler, response, requires_human, is_complete, requests) ==
    [ sid |-> sid, user_input |-> u.user_input, entities |-> u.entities,
      intent |-> IntentToUse(u, request_context), handler |-> handler,
      live |-> GetSessionFound(sessions, sid, now),
      workflow_before |-> IF GetSessionFound(sessions, sid, now)
                          THEN sessions[sid].current_workflow ELSE None,
      portal |-> IsPortal(request_context), turn_no |-> reply.turn_no + 1,
      status |-> 200, response |-> response, requires_human |-> requires_human,
      is_complete |-> is_complete, requests |-> requests ]

\* Handler coroutines of POST /conversation/process that can be suspended
\* at the same time.
Slots == {"t1", "t2"}

NoTurn == [at |-> "idle"]

EngineIdle ==
    /\ reply = NoReply
    /\ inflight = [slot \in Slots |-> NoTurn]
    /\ log = {}

\* What process_conversation itself logs before the engine runs: the
\* length of the input and the classification, never the input's text.
HandlerLog == {LogEvent("Processing user input", {}), LogEvent("Intent classified", {})}

\* The entities handed to the engine: those extracted plus the raw input.
FinalEntities(u) == Merge(u.entities, [_raw_input |-> u.user_input])

\* The handler with CONFIRM answered like CLARIFY, by the safety message.
TurnConfirmStops(sid, u, request_context, d) ==
    LET safety_result == SafetyOf(u, request_context) IN
    /\ now + d <= MaxTime
    /\ IF safety_result.action \in {"clarify", "confirm"}
       THEN /\ d = 0
            /\ reply' = Reply(sid, u, request_context, ClarifyHandler, safety_result.action,
                                  FALSE, FALSE, {})
            /\ log' = HandlerLog
            /\ UNCHANGED <<sessions, now>>
       ELSE \E plan \in EnginePlans(sessions, sid, IntentToUse(u, request_context),
                                    FinalEntities(u), request_context, now) :
                /\ sessions' = Committed(plan, sid, FinalEntities(u), now, now + d)
                /\ now' = now + d
                /\ log' = HandlerLog \cup plan.log
                /\ reply' = Reply(sid, u, request_context, plan.handler,
                                  plan.result.response,
                                  plan.result.requires_human
                                      \/ safety_result.action = "escalate",
                                  plan.result.is_complete, plan.result.requests)
    /\ ret' = Ret("process_conversation", sid, TRUE)
    /\ UNCHANGED <<issued, inflight, safetyVars, clientVars, resilienceVars, auditVars>>

\* POST /conversation/process, run without another turn in between: the
\* safety check, the clarification reply that ends the turn early, else the
\* engine, whose result is marked requires_human when safety escalated.
Turn(sid, u, request_context, d) ==
    LET safety_result == SafetyOf(u, request_context) IN
    /\ now + d <= MaxTime
    /\ IF safety_result.action = "clarify"
       THEN /\ d = 0
            /\ reply' = Reply(sid, u, request_context, ClarifyHandler, "clarify",
                                  FALSE, FALSE, {})
            /\ log' = HandlerLog
            /\ UNCHANGED <<sessions, now>>
       ELSE \E plan \in EnginePlans(sessions, sid, IntentToUse(u, request_context),
                                    FinalEntities(u), request_context, now) :
                /\ sessions' = Committed(plan, sid, FinalEntities(u), now, now + d)
                /\ now' = now + d
                /\ log' = HandlerLog \cup plan.log
                /\ reply' = Reply(sid, u, request_context, plan.handler,
                                  plan.result.response,
                                  plan.result.requires_human
                                      \/ safety_result.action = "escalate",
                                  plan.result.is_complete, plan.result.requests)
    /\ ret' = Ret("process_conversation", sid, TRUE)
    /\ UNCHANGED <<issued, inflight, safetyVars, clientVars, resilienceVars, auditVars>>

\* A turn, while fewer than MaxServed have been answered.
ProcessConversation(sid, u, request_context, d) ==
    /\ reply.turn_no < MaxServed
    /\ Turn(sid, u, request_context, d)

\* Text the classifier cannot place: UNCLEAR, with a confidence below the
\* LOW threshold or inside the LOW band.
UnclearUtterances == { Utterance("asdf", "UNCLEAR", c, EmptyDict) : c \in {10, 30, 50} }

\* request.context as a client may send it with such a turn: nothing, or
\* counts of its own.
UnclearContexts == { EmptyDict, [failed_intents |-> 5], [turn_count |-> 5] }

\* One more turn of unrecognizable text in a live session, up to
\* UnclearTurns of them.
UnclearTurn(sid, u, request_context) ==
    /\ reply.turn_no < UnclearTurns
    /\ GetSessionFound(sessions, sid, now)
    /\ Turn(sid, u, request_context, 0)

\* What the caller of one conversation says: greetings, a booking and its
\* corrections, a registration, a bed request, a bill inquiry.
DialogUtterances ==
    { Utterance("hello", "GREETING", 95, EmptyDict),
      Utterance("book", "BOOK_APPOINTMENT", 90,
                [phone |-> "9876543210", department |-> "cardiology",
                 preferred_date |-> "2026-11-03"]),
      Utterance("yes", "CONFIRM_YES", 95, EmptyDict),
      Utterance("no", "CONFIRM_NO", 95, EmptyDict),
      Utterance("neurology", "PROVIDE_INFORMATION", 90, [department |-> "neurology"]),
      Utterance("today", "PROVIDE_INFORMATION", 90, [preferred_date |-> "today"]),
      Utterance("register", "REGISTER_PATIENT", 95, EmptyDict),
      Utterance("register", "REGISTER_PATIENT", 95,
                [first_name |-> "Asha", last_name |-> "Rao", phone |-> "9876543210",
                 date_of_birth |-> "1985-01-15", gender |-> "female"]),
      Utterance("My phone is 12345", "PROVIDE_INFORMATION", 90, [phone |-> "12345"]),
      Utterance("Amit", "PROVIDE_INFORMATION", 90, [first_name |-> "Amit"]),
      Utterance("bed", "REQUEST_BED_ALLOCATION", 95, EmptyDict),
      Utterance("bill", "CHECK_BILL_STATUS", 90, EmptyDict),
      Utterance("P1001", "PROVIDE_INFORMATION", 90, [patient_id |-> "P1001"]) }

\* request.context as a client may send it: nothing, the portal's channel
\* and token, or keys the engine itself reads from the merged context.
DialogContexts ==
    { EmptyDict, [channel |-> "patient_portal", patient_token |-> "jwt1"],
      [confirmed |-> "True"], [current_workflow |-> None] }

\* One more turn of a live session.
DialogTurn(sid, u, request_context) ==
    /\ reply.turn_no < MaxServed
    /\ GetSessionFound(sessions, sid, now)
    /\ Turn(sid, u, request_context, 0)

\* Utterances classified with a confidence in the MEDIUM band below the
\* threshold of their intent (CONFIRM), with a high confidence (ALLOW), and
\* with a low one (CLARIFY); an emergency text at any confidence.
GatedUtterances ==
    { Utterance("cancel", "CANCEL_APPOINTMENT", 70, EmptyDict),
      Utterance("register", "REGISTER_PATIENT", 70, EmptyDict),
      Utterance("register", "REGISTER_PATIENT", 95, EmptyDict),
      Utterance("book", "BOOK_APPOINTMENT", 70, [phone |-> "9876543210"]),
      Utterance("book", "BOOK_APPOINTMENT", 90, [phone |-> "9876543210"]),
      Utterance("bed", "REQUEST_BED_ALLOCATION", 70, EmptyDict),
      Utterance("bill", "CHECK_BILL_STATUS", 50, EmptyDict),
      Utterance("Chest pain", "UNCLEAR", 30, EmptyDict),
      Utterance("yes", "CONFIRM_YES", 95, EmptyDict) }

\* request.context with such a turn: nothing, or a count of failed intents
\* at the escalation limit.
GatedContexts == { EmptyDict, [failed_intents |-> 3] }

\* The requests a workflow sends as the last thing it does: everything it
\* reads from the session it has read before the request goes out.
FinalRequests == {CreateAppointment, CreateEmergencyCase, PortalCreateAppointment}

\* A turn whose only backend request is such a final request, up to the
\* point where the handler is suspended in that request: the session has
\* been read (and set_workflow called for a new workflow), the request is
\* on the wire, the commit is still to come.
BeginTurn(slot, sid, u, request_context) ==
    /\ inflight[slot] = NoTurn
    /\ reply.turn_no + Cardinality({x \in Slots : inflight[x] # NoTurn}) < MaxServed
    /\ SafetyOf(u, request_context).action # "clarify"
    /\ \E plan \in EnginePlans(sessions, sid, IntentToUse(u, request_context),
                                FinalEntities(u), request_context, now) :
           /\ plan.commits
           /\ plan.result.requests \subseteq FinalRequests
           /\ Cardinality(plan.result.requests) = 1
           /\ sessions' = plan.before
           /\ log' = HandlerLog \cup plan.log
           /\ inflight' = [inflight EXCEPT ![slot] =
                  [ at |-> "backend", sid |-> sid, u |-> u,
                    request_context |-> request_context, result |-> plan.result,
                    step_read |-> Get(GetDict(GetContext(sessions, sid, now),
                                              "workflow_state"), "step"),
                    reply |-> Reply(sid, u, request_context, plan.handler,
                                    plan.result.response,
                                    plan.result.requires_human
                                        \/ SafetyOf(u, request_context).action = "escalate",
                                    plan.result.is_complete, plan.result.requests) ]]
    /\ ret' = Ret("begin_turn", sid, TRUE)
    /\ UNCHANGED <<now, issued, reply, safetyVars, clientVars, resilienceVars, auditVars>>

\* The backend request of a suspended turn returns (or raises): the engine
\* commits the result to the session as it is now and the reply goes out.
FinishTurn(slot) ==
    /\ inflight[slot] # NoTurn
    /\ sessions' = Commit(sessions, inflight[slot].sid, FinalEntities(inflight[slot].u),
                          inflight[slot].result, now, now)
    /\ reply' = [inflight[slot].reply EXCEPT !.turn_no = reply.turn_no + 1]
    /\ inflight' = [inflight EXCEPT ![slot] = NoTurn]
    /\ ret' = Ret("process_conversation", inflight[slot].sid, TRUE)
    /\ UNCHANGED <<now, issued, log, safetyVars, clientVars, resilienceVars, auditVars>>

\* POST /conversation/process cancelled (the client went away) while its
\* workflow awaits a backend request: the handler has run up to that await,
\* set_workflow included, and nothing after it runs; no reply goes out.
CancelledTurn(sid, u, request_context) ==
    /\ SafetyOf(u, request_context).action # "clarify"
    /\ \E plan \in EnginePlans(sessions, sid, IntentToUse(u, request_context),
                                FinalEntities(u), request_context, now) :
           /\ plan.commits
           /\ plan.result.requests # {}
           /\ sessions' = plan.before
           /\ log' = HandlerLog \cup plan.log
    /\ ret' = Ret("cancelled", sid, FALSE)
    /\ UNCHANGED <<now, issued, reply, inflight, safetyVars, clientVars, resilienceVars, auditVars>>

NextEngine ==
    \/ Tick
    \/ CreateSession
    \/ \E sid \in CallIds, u \in Utterances, request_context \in RequestContexts :
           ProcessConversation(sid, u, request_context, 0)

\* Turns that overlap: a turn may begin while another is suspended.
NextConcurrent ==
    \/ CreateSession
    \/ \E sid \in SessionIds, u \in Utterances : ProcessConversation(sid, u, EmptyDict, 0)
    \/ \E slot \in Slots, sid \in SessionIds, u \in Utterances :
           BeginTurn(slot, sid, u, EmptyDict)
    \/ \E slot \in Slots : FinishTurn(slot)

-----------------------------------------------------------------------------
(* Audit of backend calls: orchestration/workflows/base.py, escalation.py  *)
(* WorkflowEngine._workflows holds one EscalationWorkflow for the intent   *)
(* REPORT_EMERGENCY; every session's emergency turns run on it.            *)

\* The sessions whose turns reach the workflow, and the names they give.
AuditSessions == {"s1", "s2"}

PatientNames == {"Ravi", "Meera", ""}

\* The entry _record_api_call appends.
ApiCall(method, endpoint, request, success) ==
    [method |-> method, endpoint |-> endpoint, request |-> request, success |-> success]

\* BaseWorkflow._record_api_call
RecordApiCall(calls, method, endpoint, request, success) ==
    Append(calls, ApiCall(method, endpoint, request, success))

\* case_data of _handle_emergency
CaseData(patient_name) ==
    [patientName |-> patient_name, chiefComplaint |-> "Emergency - details pending",
     triageLevel |-> "red", source |-> "voice_agent"]

NoAudit == [sid |-> None, made |-> << >>, api_calls |-> << >>]

AuditIdle ==
    /\ api_calls = << >>
    /\ recorded = NoAudit

\* An emergency turn of a session: _handle_emergency on the shared
\* workflow, then the engine's add_turn with api_calls=result.api_calls_made.
\* made lists the backend calls of this turn.  A turn that gives no name
\* sends nothing, and one whose create_emergency_case raises records
\* nothing; both return a result whose api_calls_made is the default [].
EmergencyTurn(sid, patient_name, answered) ==
    /\ Len(api_calls) < MaxCalls
    /\ IF Truthy(patient_name) /\ answered
       THEN /\ api_calls' = RecordApiCall(api_calls, "POST", <<"emergency", "cases">>,
                                          CaseData(patient_name), TRUE)
            /\ recorded' = [ sid |-> sid,
                             made |-> <<ApiCall("POST", <<"emergency", "cases">>,
                                                CaseData(patient_name), TRUE)>>,
                             api_calls |-> api_calls' ]
       ELSE /\ api_calls' = api_calls
            /\ recorded' = [ sid |-> sid,
                             made |-> IF Truthy(patient_name)
                                      THEN <<ApiCall("POST", <<"emergency", "cases">>,
                                                     CaseData(patient_name), FALSE)>>
                                      ELSE << >>,
                             api_calls |-> << >> ]
    /\ UNCHANGED <<storeVars, safetyVars, clientVars, engineVars, resilienceVars>>

-----------------------------------------------------------------------------
(* Safety properties *)

\* A text that holds an emergency keyword, in any letter case.
HasEmergencyKeyword(text) ==
    \E k \in 1..Len(EMERGENCY_KEYWORDS) :
        \E i \in 1..Len(text) :
            /\ i + Len(EMERGENCY_KEYWORDS[k]) - 1 <= Len(text)
            /\ \A j \in 1..Len(EMERGENCY_KEYWORDS[k]) :
                  LowerWord(text[i + j - 1]) = EMERGENCY_KEYWORDS[k][j]

\* C4: for every raw text holding an emergency keyword, get_safe_response
\* returns action escalate, intent_override REPORT_EMERGENCY and no message,
\* whatever the intent, the confidence, the human-escalation keywords and
\* the counters in context.
C4_EmergencyOverridesEverything ==
    (sfOut # Pending /\ HasEmergencyKeyword(sfIn.raw_text)) =>
        sfOut = [action |-> "escalate", message |-> None,
                 intent_override |-> "REPORT_EMERGENCY"]

\* An emergency text that also asks for a human, classified with the lowest
\* confidence in a session that has failed three times, has been answered.
C4_Witness ==
    /\ sfOut # Pending
    /\ HasEmergencyKeyword(sfIn.raw_text)
    /\ CheckForHumanEscalation(sfIn.raw_text)
    /\ sfIn.confidence = 0
    /\ sfIn.intent = "UNCLEAR"
    /\ sfIn.context.failed_intents >= MAX_INTENT_FAILURES

-----------------------------------------------------------------------------
(* Session store properties *)

\* The fields of a session that a rejected call must leave alone.
SessionData(sess) ==
    <<sess.turns, sess.context, sess.current_workflow, sess.workflow_state, sess.last_activity>>

\* C6: in every reachable state, the i-th turn of every session has
\* turn_id = i, whatever add_turn calls (accepted or rejected) came before.
C6_TurnIdsContiguous ==
    \A sid \in DOMAIN sessions :
        \A i \in 1..Len(sessions[sid].turns) : sessions[sid].turns[i].turn_id = i

\* A full turn list on which a further add_turn has just been rejected.
C6_Witness ==
    /\ "s1" \in DOMAIN sessions
    /\ Len(sessions["s1"].turns) = max_turns
    /\ ret = Ret("add_turn", "s1", FALSE)

\* C7: on a session get_session hands out, add_turn is accepted exactly
\* while fewer than max_turns turns are stored; a rejected add_turn leaves
\* the turn list, the entity bag and last_activity as they were; the turn
\* list never grows beyond max_turns.
C7_MaxTurnsBoundary ==
    [][ \A sid \in DOMAIN sessions :
          (ret'.op = "add_turn" /\ ret'.sid = sid) =>
            /\ sid \in DOMAIN sessions'
            /\ ret'.ok <=> (~IsSessionExpired(sessions[sid], now)
                            /\ Len(sessions[sid].turns) < max_turns)
            /\ ret'.ok => Len(sessions'[sid].turns) = Len(sessions[sid].turns) + 1
            /\ ~ret'.ok =>
                 /\ sessions'[sid].turns = sessions[sid].turns
                 /\ sessions'[sid].context = sessions[sid].context
                 /\ sessions'[sid].last_activity = sessions[sid].last_activity
            /\ Len(sessions'[sid].turns) <= max_turns ]_vars

\* The (max_turns+1)-th add_turn of a live session has been rejected.
C7_Witness ==
    /\ "s1" \in DOMAIN sessions
    /\ ~IsSessionExpired(sessions["s1"], now)
    /\ Len(sessions["s1"].turns) = max_turns
    /\ "phone" \in DOMAIN sessions["s1"].context
    /\ ret = Ret("add_turn", "s1", FALSE)

\* C11: an accepted add_turn leaves every truthy entity of the turn in the
\* session's entity bag with that value, leaves every other key of the bag
\* with the value it had, and no step removes a key from the bag of a
\* session that stays in the store.
C11_EntityMerge ==
    [][ \A sid \in (DOMAIN sessions) \cap (DOMAIN sessions') :
          LET old == sessions[sid].context
              new == sessions'[sid].context
          IN /\ DOMAIN old \subseteq DOMAIN new
             /\ (ret'.op = "add_turn" /\ ret'.sid = sid /\ ret'.ok) =>
                   /\ \A k \in DOMAIN ret'.entities :
                         Truthy(ret'.entities[k]) => (k \in DOMAIN new /\ new[k] = ret'.entities[k])
                   /\ \A k \in DOMAIN old :
                         ~Truthy(Get(ret'.entities, k)) => new[k] = old[k] ]_vars

\* A turn with an empty phone and a name has been appended to a session
\* whose bag already held a phone: the phone is kept, the name added.
C11_Witness ==
    /\ ret.op = "add_turn" /\ ret.ok
    /\ ret.entities = [phone |-> "", name |-> "n1"]
    /\ ret.sid \in DOMAIN sessions
    /\ sessions[ret.sid].context = [phone |-> "p1", name |-> "n1"]

\* C13: in every reachable state, a session with at least one turn has
\* last_activity equal to the timestamp of its last turn, and its turn
\* timestamps (hence last_activity over successive turns) never decrease.
C13_LastActivityIsLastTurn ==
    \A sid \in DOMAIN sessions :
        LET turns == sessions[sid].turns IN
        /\ Len(turns) > 0 => sessions[sid].last_activity = turns[Len(turns)].timestamp
        /\ \A i \in 1..(Len(turns) - 1) : turns[i].timestamp <= turns[i + 1].timestamp

\* C8: in every reachable state, a session holding max_turns turns is
\* inactive.
C8_FullSessionInactive ==
    \A sid \in DOMAIN sessions :
        Len(sessions[sid].turns) = max_turns => ~sessions[sid].is_active

\* C9: once a session is expired, get_session returns none and marks it
\* inactive, it stays expired, and no step changes its turns, entity bag,
\* workflow name, workflow state or last_activity (the sweep may drop it).
C9_ExpiredSessionFrozen ==
    [][ \A sid \in DOMAIN sessions :
          IsSessionExpired(sessions[sid], now) =>
            /\ (ret'.sid = sid /\ ret'.op \in {"get_session", "add_turn", "set_workflow",
                                               "update_workflow_state", "clear_workflow",
                                               "end_session"}) =>
                  /\ ~ret'.ok
                  /\ sid \in DOMAIN sessions'
                  /\ ~sessions'[sid].is_active
            /\ sid \in DOMAIN sessions' =>
                  /\ SessionData(sessions'[sid]) = SessionData(sessions[sid])
                  /\ IsSessionExpired(sessions'[sid], now') ]_vars

\* An expired session with a turn and an active workflow on which
\* set_workflow has just been attempted.
C9_Witness ==
    /\ "s1" \in DOMAIN sessions
    /\ IsSessionExpired(sessions["s1"], now)
    /\ Len(sessions["s1"].turns) > 0
    /\ sessions["s1"].current_workflow # None
    /\ ret = Ret("set_workflow", "s1", FALSE)

\* C32: a get_session that directly follows an end_session which returned
\* True for the same id returns none.
C32_EndedSessionNotReturned ==
    [][ ( /\ ret = Ret("end_session", ret.sid, TRUE)
          /\ ret'.op = "get_session"
          /\ ret'.sid = ret.sid )
        => ~ret'.ok ]_vars

\* C39: a session whose is_active is false stays inactive, and an add_turn,
\* set_workflow or update_workflow_state on it leaves its turns, entity bag,
\* workflow name and workflow state as they were.
C39_InactiveSessionFrozen ==
    [][ \A sid \in DOMAIN sessions :
          (~sessions[sid].is_active /\ sid \in DOMAIN sessions') =>
            /\ ~sessions'[sid].is_active
            /\ (ret'.sid = sid /\ ret'.op \in {"add_turn", "set_workflow",
                                               "update_workflow_state"}) =>
                  /\ sessions'[sid].turns = sessions[sid].turns
                  /\ sessions'[sid].context = sessions[sid].context
                  /\ sessions'[sid].current_workflow = sessions[sid].current_workflow
                  /\ sessions'[sid].workflow_state = sessions[sid].workflow_state ]_vars

\* C34: a session that is expired is eventually no longer in the store, and
\* a step of the sweep removes no session that is not expired.
C34_ExpiredEventuallySwept ==
    /\ \A sid \in SessionIds :
          [](sid \in DOMAIN sessions /\ IsSessionExpired(sessions[sid], now)
               => <>(sid \notin DOMAIN sessions))
    /\ [][ ret'.op = "cleanup_expired_sessions" =>
              \A sid \in DOMAIN sessions :
                  ~IsSessionExpired(sessions[sid], now) => sid \in DOMAIN sessions' ]_vars

-----------------------------------------------------------------------------
(* Backend client properties *)

\* The requests on the wire: sent and not yet answered.
OnTheWire(c) == callers[c].at \in {"request", "portal"}

\* The path a portal request is sent to: base_url + "/patient" + endpoint.
SentPath(c) ==
    IF callers[c].at = "portal" THEN <<"patient">> \o callers[c].request.endpoint
    ELSE callers[c].request.endpoint

\* C2: every request on the wire is one RBACEnforcer.is_allowed admits: it
\* matches no deny pattern and matches an allow pattern.
C2_RequestsPassRbac ==
    \A c \in Callers :
        OnTheWire(c) => IsAllowed(callers[c].request.method, SentPath(c))

\* C3: at most one POST /auth/login is in progress at any time.
C3_SingleFlightLogin ==
    Cardinality({c \in Callers : callers[c].at = "login"}) <= 1

C21_UnauthorizedReauthenticates ==
    (ret.op = "his_request" /\ ret.cached /\ ret.status = "401")
    => (ret.logins = 1 /\ ret.sent = 2)

\* C22: a backend call that fails with a timeout or a network error is
\* sent again as the his_api retry configuration says, so a call reported
\* as failed has been sent max_retries + 1 times.
C22_TransportFailureRetried ==
    (ret.op = "his_request" /\ ret.status \in {"timeout", "network"})
    => ret.sent = HisApiRetries + 1

-----------------------------------------------------------------------------
(* Dialog turn properties *)

\* C5: a turn whose utterance holds an emergency keyword, in a session that
\* has an active workflow (service account or patient portal), is answered
\* by the emergency reply with requires_human true, and once the engine has
\* committed the turn the session has no current workflow and an empty
\* workflow state.
C5_EmergencyEndsWorkflow ==
    ( /\ ret.op = "process_conversation"
      /\ reply.live
      /\ reply.workflow_before # None
      /\ CheckForEmergency(Words(reply.user_input)) )
    => /\ reply.response \in EmergencyReplies
       /\ reply.requires_human
       /\ sessions[reply.sid].current_workflow = None
       /\ sessions[reply.sid].workflow_state = EmptyDict

\* C10: a turn addressed to a session id that get_session does not hand out
\* (unknown or expired) ends in status 404 or in a session created for it,
\* and sends no backend request.
C10_MissingSessionNotServed ==
    ( /\ ret.op = "process_conversation"
      /\ ~reply.live )
    => /\ reply.status = 404 \/ GetSessionFound(sessions, reply.sid, now)
       /\ reply.requests = {}

\* C14: no log event of a turn carries a phone, Aadhaar-like or card number
\* of the caller in clear: every logged value is one that
\* mask_sensitive_data leaves as it is.
C14_LogsMasked ==
    \A e \in log : \A value \in e.values :
        MaskSensitiveData(LogText(value)) = LogText(value)

\* C18: in a session that receives five consecutive turns of
\* unrecognizable text, by the fifth turn the response has requires_human
\* true and carries the hand-off message.
C18_RepeatedUnclearEscalates ==
    (ret.op = "process_conversation" /\ reply.turn_no >= UnclearTurns)
    => (reply.requires_human /\ reply.response = HandOffMessage)

\* C12: after a turn whose WorkflowResult has is_complete true (from a
\* workflow's execute, a continuation or the GOODBYE intent), on a session
\* that was handed out and has not timed out meanwhile, the session's
\* current_workflow is null.
C12_CompleteClearsWorkflow ==
    ( /\ ret.op = "process_conversation"
      /\ reply.live
      /\ reply.is_complete
      /\ ~IsSessionExpired(sessions[reply.sid], now) )
    => sessions[reply.sid].current_workflow = None

\* Turns suspended in a backend request on one session.
Suspended(sid) == {slot \in Slots : inflight[slot] # NoTurn /\ inflight[slot].sid = sid}

\* C1: turns on the same session id serialize: a second turn reads the
\* session only after the first has committed, so no two turns are suspended
\* on one session having both read step awaiting_confirmation and both sent
\* create_appointment.
C1_TurnsSerialize ==
    \A sid \in CallIds :
        \A a, b \in Suspended(sid) :
            ( /\ inflight[a].step_read = "awaiting_confirmation"
              /\ inflight[b].step_read = "awaiting_confirmation"
              /\ inflight[a].result.requests = {CreateAppointment}
              /\ inflight[b].result.requests = {CreateAppointment} )
            => a = b

-----------------------------------------------------------------------------
(* Properties of the masking, validation and confidence functions *)

\* C15: mask_sensitive_data is idempotent: masking a masked text changes
\* nothing, for every text, also one with more than three groups of four
\* digits in a row.
C15_MaskIdempotent ==
    (sfOut # Pending /\ sfOut.op = "mask_sensitive_data") => sfOut.again = sfOut.masked

\* C16: for every phone validate_phone accepts, the normalized value has
\* exactly ten digits and validate_phone accepts it again with the same
\* normalized value.
C16_NormalizedPhoneRevalidates ==
    (sfOut # Pending /\ sfOut.op = "validate_phone" /\ sfOut.first.result = "valid") =>
        /\ Len(sfOut.first.normalized) = 10
        /\ AllDigits(sfOut.first.normalized, 1)
        /\ sfOut.again = sfOut.first

\* C17: for every intent, check_intent_confidence with the confidence equal
\* to the intent's threshold returns allow.
C17_ThresholdAllows ==
    ( /\ sfOut # Pending
      /\ sfOut.op = "check_intent_confidence"
      /\ sfIn.confidence = IntentThreshold(sfIn.intent) )
    => sfOut.action = "allow"

-----------------------------------------------------------------------------
(* Properties of RetryHandler and CircuitBreaker *)

\* The invocations of the callable in a trace of execute.
CallsOf(trace) == {i \in 1..Len(trace) : trace[i].kind = "call"}

\* C19: execute invokes the callable at most max_retries + 1 times; it
\* returns the first successful result; an exception that is not retryable
\* is raised after that attempt with no sleep and no further attempt; when
\* every attempt fails with a retryable exception it raises the last one
\* after exactly max_retries + 1 attempts; it sleeps
\* min(base_delay * exponential_base ^ attempt, max_delay), and only between
\* two attempts.
C19_RetryContract ==
    retry.at # "idle" =>
        LET trace == retry.trace
            config == retry.config
            calls == CallsOf(trace)
            Retryable(i) == /\ trace[i].outcome # "ok"
                            /\ trace[i].outcome \in config.retryable_exceptions
        IN
        /\ Cardinality(calls) <= config.max_retries + 1
        \* events alternate: call, sleep, call, ...
        /\ \A i \in 1..Len(trace) : (trace[i].kind = "call") <=> (i % 2 = 1)
        \* a call that is not the last one raised a retryable exception
        /\ \A i \in calls : i < Len(trace) => Retryable(i)
        \* a sleep follows a retryable failure, has the delay of that
        \* attempt, and is followed by the next attempt once execute is done
        /\ \A i \in 1..Len(trace) : trace[i].kind = "sleep" =>
               /\ Retryable(i - 1)
               /\ trace[i].delay = Min(config.base_delay * Power(2, (i \div 2) - 1),
                                       config.max_delay)
               /\ retry.at \in {"returned", "raised"} => i < Len(trace)
        /\ retry.at = "calling" => Cardinality(calls) <= config.max_retries
        /\ retry.at = "returned" =>
               /\ trace[Len(trace)] = CallEvent("ok")
               /\ retry.returned = "ok" /\ retry.raised = None
        /\ retry.at = "raised" =>
               /\ trace[Len(trace)].kind = "call"
               /\ trace[Len(trace)].outcome # "ok"
               /\ retry.raised = trace[Len(trace)].outcome /\ retry.returned = None
               /\ Retryable(Len(trace)) => Cardinality(calls) = config.max_retries + 1
        \* a success or a failure that is not retryable ends execute
        /\ (trace # << >> /\ trace[Len(trace)].kind = "call" /\ ~Retryable(Len(trace)))
               => retry.at \in {"returned", "raised"}

\* execute gave up after max_retries + 1 retryable failures, having slept
\* the capped delay before the last attempt.
C19_Witness ==
    /\ retry.at = "raised"
    /\ retry.config.max_retries = 3
    /\ retry.raised = "TimeoutError"
    /\ Cardinality(CallsOf(retry.trace)) = 4
    /\ retry.trace[6] = SleepEvent(30)
    /\ retry.config.base_delay = 10

\* C20: the breaker opens when the failure counter reaches
\* failure_threshold; while open and before recovery_timeout has elapsed
\* execute is blocked without invoking the callable; the first call after
\* recovery_timeout moves it to half-open and invokes the callable; a
\* success in half-open closes it and a failure in half-open re-opens it.
C20_BreakerStates ==
    breaker.state # "none" =>
        LET last == breaker.last IN
        /\ (last.op = "failure" /\ last.failures + 1 >= failure_threshold)
               => breaker.state = "open"
        /\ (last.before = "open" /\ last.elapsed < recovery_timeout
               /\ last.op \in {"blocked", "invoked"})
               => (last.op = "blocked" /\ breaker.state = "open")
        /\ (last.before = "open" /\ last.elapsed >= recovery_timeout
               /\ last.op \in {"blocked", "invoked"})
               => (last.op = "invoked" /\ breaker.state = "half-open")
        /\ (last.op = "success" /\ last.before = "half-open") => breaker.state = "closed"
        /\ (last.op = "failure" /\ last.before = "half-open") => breaker.state = "open"
        /\ (last.before = "closed" /\ breaker.state # "closed")
               => (last.op = "failure" /\ breaker.state = "open")

-----------------------------------------------------------------------------
(* Rule-based fallback: conversation/intent_classifier.py                  *)
(* A text is a string; a keyword occurs in it as a run of characters,      *)
(* inside a word or across words.  The texts have no digit, so the date,   *)
(* time and phone expressions of the fallback find nothing in them.        *)

UpperCase == "ABCDEFGHIJKLMNOPQRSTUVWXYZ"

LowerCase == "abcdefghijklmnopqrstuvwxyz"

\* c.isupper(), for the characters of the texts
IsUpper(c) == \E i \in 1..Len(UpperCase) : SubSeq(UpperCase, i, i) = c

\* c.lower()
LowerChar(c) ==
    IF IsUpper(c)
    THEN LET i == CHOOSE j \in 1..Len(UpperCase) : SubSeq(UpperCase, j, j) = c
         IN SubSeq(LowerCase, i, i)
    ELSE c

\* str.lower()
RECURSIVE StrLower(_)
StrLower(text) ==
    IF text = "" THEN ""
    ELSE LowerChar(SubSeq(text, 1, 1)) \o StrLower(SubSeq(text, 2, Len(text)))

\* str.strip(), for texts whose only whitespace is the space
RECURSIVE Strip(_)
Strip(text) ==
    IF text = "" THEN ""
    ELSE IF SubSeq(text, 1, 1) = " " THEN Strip(SubSeq(text, 2, Len(text)))
    ELSE IF SubSeq(text, Len(text), Len(text)) = " "
    THEN Strip(SubSeq(text, 1, Len(text) - 1))
    ELSE text

\* str.split(): the runs of characters between spaces
RECURSIVE Split(_)
Split(text) ==
    LET t == Strip(text)
        spaces == {i \in 1..Len(t) : SubSeq(t, i, i) = " "}
        first == CHOOSE i \in spaces : \A j \in spaces : i <= j
    IN IF t = "" THEN << >>
       ELSE IF spaces = {} THEN <<t>>
       ELSE <<SubSeq(t, 1, first - 1)>> \o Split(SubSeq(t, first + 1, Len(t)))

\* any(word in text_lower for word in words)
AnyIn(words, text_lower) == \E k \in 1..Len(words) : Occurs(words[k], text_lower)

\* The word lists of the rules, in the order the rules are tried.
GreetingWords == <<"hello", "hi", "good morning", "good afternoon">>

GoodbyeWords == <<"bye", "goodbye", "thank you", "thanks">>

FallbackEmergencyWords == <<"emergency", "urgent", "accident", "heart attack">>

StatusWords == <<"status", "check my", "where is", "result", "report">>

BookingWords == <<"appointment", "book", "schedule">>

RegisterWords == <<"register", "new patient">>

CheckinWords == <<"check in", "arrived", "here for">>

BedWords == <<"bed", "room", "admission">>

LabWords == <<"lab", "test", "blood">>

BillWords == <<"bill", "payment", "owe">>

HumanWords == <<"speak to", "human", "person", "transfer">>

FallbackDepartments ==
    << "general medicine", "cardiology", "orthopedics", "ent", "dermatology", "neurology",
       "pediatrics", "gynecology", "ophthalmology", "psychiatry", "surgery", "urology",
       "gastroenterology", "pulmonology", "nephrology" >>

YesWords == {"yes", "yeah", "yep", "correct", "right", "ok", "okay", "sure"}

NoWords == {"no", "nope", "cancel", "wrong", "incorrect"}

RelativeDates == <<"today", "tomorrow", "next week", "next monday">>

CommonWords == {"i", "a", "the", "is", "my", "for", "to", "and", "or", "in", "on", "at"}

\* IntentResult: the intent name, the confidence in hundredths, the entities.
IntentResult(intent, confidence, entities) ==
    [intent |-> intent, confidence |-> confidence, entities |-> entities]

\* IntentClassifier._fallback_classification
FallbackClassification(text) ==
    LET text_lower == StrLower(Strip(text))
        words == Split(text)
    IN
    CASE AnyIn(GreetingWords, text_lower) -> IntentResult("GREETING", 80, EmptyDict)
      [] AnyIn(GoodbyeWords, text_lower) -> IntentResult("GOODBYE", 80, EmptyDict)
      [] AnyIn(FallbackEmergencyWords, text_lower)
             -> IntentResult("REPORT_EMERGENCY", 90, EmptyDict)
      [] AnyIn(StatusWords, text_lower) -> IntentResult("CHECK_STATUS", 70, EmptyDict)
      [] AnyIn(BookingWords, text_lower) -> IntentResult("BOOK_APPOINTMENT", 70, EmptyDict)
      [] AnyIn(RegisterWords, text_lower) -> IntentResult("REGISTER_PATIENT", 70, EmptyDict)
      [] AnyIn(CheckinWords, text_lower) -> IntentResult("OPD_CHECKIN", 70, EmptyDict)
      [] AnyIn(BedWords, text_lower) -> IntentResult("CHECK_BED_AVAILABILITY", 60, EmptyDict)
      [] AnyIn(LabWords, text_lower) /\ ~Occurs("result", text_lower)
             -> IntentResult("BOOK_LAB_TEST", 60, EmptyDict)
      [] AnyIn(BillWords, text_lower) -> IntentResult("CHECK_BILL_STATUS", 60, EmptyDict)
      [] AnyIn(HumanWords, text_lower) -> IntentResult("ESCALATE_TO_HUMAN", 80, EmptyDict)
      [] AnyIn(FallbackDepartments, text_lower)
             -> IntentResult("PROVIDE_INFORMATION", 85, [department |-> Strip(text)])
      [] text_lower \in YesWords -> IntentResult("CONFIRM_YES", 85, EmptyDict)
      [] text_lower \in NoWords -> IntentResult("CONFIRM_NO", 85, EmptyDict)
      [] AnyIn(RelativeDates, text_lower)
             -> IntentResult("PROVIDE_INFORMATION", 85,
                             [date |-> Strip(text), preferred_date |-> Strip(text)])
      [] /\ Len(words) <= 3
         /\ \A k \in 1..Len(words) :
                StrLower(words[k]) \in CommonWords \/ IsUpper(SubSeq(words[k], 1, 1))
             -> IntentResult("PROVIDE_INFORMATION", 70, [name |-> Strip(text)])
      [] Len(words) <= 3 -> IntentResult("PROVIDE_INFORMATION", 50, [value |-> Strip(text)])
      [] OTHER -> IntentResult("UNCLEAR", 30, EmptyDict)

\* class Intent: the closed vocabulary of intent names.
IntentVocabulary ==
    { "GREETING", "GOODBYE", "HELP", "UNCLEAR", "REGISTER_PATIENT", "FIND_PATIENT",
      "UPDATE_PATIENT", "BOOK_APPOINTMENT", "RESCHEDULE_APPOINTMENT", "CANCEL_APPOINTMENT",
      "CHECK_APPOINTMENT_STATUS", "OPD_CHECKIN", "OPD_QUEUE_STATUS", "REQUEST_ADMISSION",
      "CHECK_BED_AVAILABILITY", "REQUEST_BED_ALLOCATION", "BOOK_LAB_TEST", "CHECK_LAB_STATUS",
      "CHECK_BILL_STATUS", "GENERAL_STATUS_INQUIRY", "REPORT_EMERGENCY", "ESCALATE_TO_HUMAN",
      "CONFIRM_YES", "CONFIRM_NO", "PROVIDE_INFORMATION" }

\* What callers say when the fallback classifies: an opening, or none, and
\* what they want.
FallbackOpenings == {"", "This is ", "Hello, ", "please ", "I need "}

FallbackRequests ==
    { "an emergency!", "URGENT", "a heart attack", "accident, thanks", "good morning",
      "goodbye", "check my appointment", "where is my report", "book an appointment",
      "a new patient", "arrived", "a bed", "a blood test", "my bill",
      "to speak to a person", "cardiology", "yes", "no", "tomorrow", "Asha Rao",
      "asdf", "what else could you do now" }

FallbackTexts == {opening \o request : opening \in FallbackOpenings, request \in FallbackRequests}

\* _fallback_classification applied to a text.
FallbackCall ==
    /\ sfOut = Pending
    /\ sfIn.op = "fallback_classification"
    /\ sfOut' = [op |-> "fallback_classification", result |-> FallbackClassification(sfIn.text)]
    /\ UNCHANGED sfIn
    /\ UNCHANGED <<storeVars, clientVars, engineVars, resilienceVars, auditVars>>

\* C31: a text that holds an emergency keyword of the fallback is classified
\* REPORT_EMERGENCY with confidence 0.9, whatever else it holds.
C31_FallbackEmergencyFirst ==
    ( /\ sfOut # Pending
      /\ sfOut.op = "fallback_classification"
      /\ AnyIn(FallbackEmergencyWords, StrLower(sfIn.text)) )
    => ( /\ sfOut.result.intent = "REPORT_EMERGENCY"
         /\ sfOut.result.confidence = 90 )

\* C37: the fallback's result names an intent of the closed vocabulary.
C37_FallbackIntentInVocabulary ==
    (sfOut # Pending /\ sfOut.op = "fallback_classification")
    => sfOut.result.intent \in IntentVocabulary

-----------------------------------------------------------------------------
(* Workflow properties *)

\* A step that answers one more turn.
TurnServed == reply'.turn_no = reply.turn_no + 1

\* The methods of a workflow class that can answer a turn.
HandlersOf(workflow) == {<<workflow, "execute">>, <<workflow, "continue_workflow">>}

\* C24: in a portal session whose portal workflow has started and has not
\* completed, every further portal turn is dispatched to
\* PatientPortalWorkflow.continue_workflow, whatever its intent.
C24_PortalTurnsContinue ==
    [][ ( /\ TurnServed
          /\ reply.handler \in HandlersOf("PatientPortalWorkflow")
          /\ ~reply.is_complete
          /\ reply'.sid = reply.sid /\ reply'.live /\ reply'.portal
          /\ sessions[reply.sid].current_workflow # None )
        => reply'.handler = <<"PatientPortalWorkflow", "continue_workflow">> ]_vars

\* C25: a turn whose intent is the name of the session's active workflow is
\* answered by continue_workflow and, unless the workflow completes, every
\* key of the workflow state bag is still there after the turn.
C25_SameIntentContinues ==
    [][ ( /\ TurnServed
          /\ reply'.live
          /\ sessions[reply'.sid].current_workflow # None
          /\ reply'.intent = sessions[reply'.sid].current_workflow )
        => ( /\ reply'.handler[2] = "continue_workflow"
             /\ \/ reply'.is_complete
                \/ DOMAIN sessions[reply'.sid].workflow_state
                       \subseteq DOMAIN sessions'[reply'.sid].workflow_state ) ]_vars

\* C26: create_appointment goes out only in a CONFIRM_YES turn that found
\* the stored step awaiting_confirmation.
C26_CreateOnlyOnConfirmYes ==
    [][ (TurnServed /\ reply'.live /\ CreateAppointment \in reply'.requests)
        => ( /\ reply'.intent = "CONFIRM_YES"
             /\ Get(sessions[reply'.sid].workflow_state, "step")
                    = "awaiting_confirmation" ) ]_vars

\* C27: the turn after a denied booking summary that names another date or
\* department and is answered with a new summary leaves a pending booking
\* with that date, respectively with the id of that department.
C27_DenialRecollects ==
    [][ ( /\ TurnServed
          /\ reply'.live
          /\ reply'.handler = <<"AppointmentBookingWorkflow", "continue_workflow">>
          /\ Get(sessions[reply'.sid].workflow_state, "step") = "restart"
          /\ reply'.response = "confirm_summary" )
        => LET pending == sessions'[reply'.sid].workflow_state
               entities == reply'.entities
           IN /\ "preferred_date" \in DOMAIN entities
                     => pending.scheduled_date = FormatDate(entities.preferred_date)
              /\ "department" \in DOMAIN entities
                     => /\ MatchedDepartments(entities.department) # << >>
                        /\ pending.department_id
                               = MatchedDepartments(entities.department)[1].id ]_vars

\* C28: the registration turn after a denied summary, when it does not
\* itself give every required field, is answered with the prompt for a
\* missing field.
C28_DenialEmptiesBag ==
    [][ ( /\ TurnServed
          /\ reply.response = "start_over"
          /\ reply'.sid = reply.sid /\ reply'.live
          /\ reply'.handler = <<"PatientRegistrationWorkflow", "continue_workflow">>
          /\ \E i \in 1..Len(RequiredEntities) :
                 RequiredEntities[i] \notin DOMAIN reply'.entities )
        => reply'.response \in RegistrationPrompts ]_vars

\* C29: a registration turn that gives a phone _validate_phone rejects sends
\* no backend request, is answered with the request for a 10-digit number,
\* and does not leave that phone among the session's collected entities.
C29_InvalidPhoneRejected ==
    ( /\ reply.live
      /\ reply.handler \in HandlersOf("PatientRegistrationWorkflow")
      /\ "phone" \in DOMAIN reply.entities
      /\ ~Truthy(ValidatePhone(reply.entities.phone)) )
    => ( /\ reply.requests = {}
         /\ reply.response = "phone_not_valid"
         /\ Get(sessions[reply.sid].context, "phone") # reply.entities.phone )

\* C30: the turn that gives the patient identifier a workflow asked for is
\* handled as the intent that started the workflow: a bed request ends in
\* the hand-off to a human, a bill inquiry fetches the bills, an appointment
\* inquiry the appointments.
C30_ContinuationKeepsIntent ==
    [][ ( /\ TurnServed
          /\ reply.response \in {"need_patient_for_bed", "need_patient_for_status"}
          /\ reply'.sid = reply.sid /\ reply'.live
          /\ reply'.handler[2] = "continue_workflow"
          /\ reply'.handler[1] # "PatientPortalWorkflow"
          /\ Truthy(Get(reply'.entities, "patient_id")) )
        => LET started == sessions[reply.sid].current_workflow
           IN /\ started \in {"REQUEST_BED_ALLOCATION", "REQUEST_ADMISSION"}
                     => reply'.requires_human
              /\ started = "CHECK_BILL_STATUS" => reply'.requests = {GetPatientBills}
              /\ started = "CHECK_APPOINTMENT_STATUS"
                     => reply'.requests = {GetAppointments} ]_vars

\* C35: create_patient goes out only in a CONFIRM_YES turn that found the
\* stored step awaiting_confirmation, with the five required fields held by
\* the workflow state and the phone and the date of birth validated.
C35_PatientOnlyOnConfirmYes ==
    [][ (TurnServed /\ reply'.live /\ CreatePatient \in reply'.requests)
        => LET stored == sessions[reply'.sid].workflow_state
           IN /\ reply'.intent = "CONFIRM_YES"
              /\ Get(stored, "step") = "awaiting_confirmation"
              /\ \A i \in 1..Len(RequiredEntities) : Truthy(Get(stored, RequiredEntities[i]))
              /\ Truthy(Get(stored, "validated_phone"))
              /\ Truthy(Get(stored, "validated_dob")) ]_vars

\* C33: a turn cancelled while a backend request is in flight leaves the
\* session's workflow name, workflow state, entity bag and turn list as
\* they were before the turn.
C33_CancelledTurnCommitsNothing ==
    [][ (ret'.op = "cancelled" /\ ret'.sid \in DOMAIN sessions)
        => LET before == sessions[ret'.sid]
               after == sessions'[ret'.sid]
           IN /\ after.current_workflow = before.current_workflow
              /\ after.workflow_state = before.workflow_state
              /\ after.context = before.context
              /\ after.turns = before.turns ]_vars

\* C36: the api_calls of a recorded turn are backend calls of that turn:
\* none of them was recorded in an earlier turn or for another session.
C36_TurnCallsAreItsOwn ==
    /\ Len(recorded.api_calls) <= Len(recorded.made)
    /\ \A i \in 1..Len(recorded.api_calls) :
           \E j \in 1..Len(recorded.made) : recorded.made[j] = recorded.api_calls[i]

\* C38: a booking turn answered with the department question, the doctor
\* offer, the date question or the summary leaves a resolved patient_id in
\* the workflow state, and create_appointment goes out only for a patient
\* resolved before the turn or found by this turn's search.
C38_BookingNeedsPatient ==
    [][ ( /\ TurnServed
          /\ reply'.live
          /\ reply'.handler \in HandlersOf("AppointmentBookingWorkflow") )
        => LET before == sessions[reply'.sid]
               pending == sessions'[reply'.sid].workflow_state
           IN /\ reply'.response \in {"ask_department", "offer_doctors", "ask_date",
                                       "confirm_summary"}
                     => Truthy(Get(pending, "patient_id"))
              /\ CreateAppointment \in reply'.requests
                     => \/ Truthy(Get(before.workflow_state, "patient_id"))
                        \/ Truthy(Get(before.context, "patient_id"))
                        \/ Truthy(Get(reply'.entities, "patient_id"))
                        \/ SearchPatients \in reply'.requests ]_vars

\* The same utterance classified with a high confidence.
Confident(u) == [u EXCEPT !.confidence = 95]

-----------------------------------------------------------------------------
(* Specifications *)

\* The session store under arbitrary calls and the passage of time.
Init == InitStore /\ SafetyIdle /\ ClientIdle /\ EngineIdle /\ ResilienceIdle /\ AuditIdle

Next == NextStore

Spec == Init /\ [][Next]_vars

\* The session store as the running service drives it: the clock advances,
\* and main.py (lifespan) starts no task that calls cleanup_expired_sessions,
\* so the sweep is a step that may never be taken.
SpecSweep == Init /\ [][Next]_vars /\ WF_vars(Tick)

\* The safety guardrails applied to every input of the bounded sets.
InitSafetySpec == InitSafety /\ StoreIdle /\ ClientIdle /\ EngineIdle /\ ResilienceIdle /\ AuditIdle

NextSafetySpec == SafetyCheck

SpecSafety == InitSafetySpec /\ [][NextSafetySpec]_vars

\* The backend client used by concurrent callers while time passes.
InitClientSpec == InitClient /\ StoreIdle /\ SafetyIdle /\ EngineIdle /\ ResilienceIdle /\ AuditIdle

SpecClient == InitClientSpec /\ [][NextClient]_vars

\* Dialog turns, one at a time, on sessions that come and go.
InitEngineSpec == InitStore /\ SafetyIdle /\ ClientIdle /\ EngineIdle /\ ResilienceIdle /\ AuditIdle

SpecEngine == InitEngineSpec /\ [][NextEngine]_vars

\* Dialog turns of one session that overlap in their backend requests.
SpecConcurrent == InitEngineSpec /\ [][NextConcurrent]_vars

\* The masking, validation and confidence functions applied to every input
\* of the bounded sets.
InitFunctions ==
    /\ sfIn \in [op : {"mask_sensitive_data"}, text : MaskTexts(MaxGroups)]
               \cup [op : {"validate_phone"}, phone : Phones]
               \cup [op : {"check_intent_confidence"}, intent : ThresholdIntents,
                      confidence : ThresholdConfidences]
    /\ sfOut = Pending
    /\ StoreIdle /\ ClientIdle /\ EngineIdle /\ ResilienceIdle /\ AuditIdle

NextFunctions ==
    \/ MaskCall
    \/ ValidatePhoneCall
    \/ CheckIntentConfidenceCall

SpecFunctions == InitFunctions /\ [][NextFunctions]_vars

\* One execute call of a RetryHandler, for every configuration.
InitRetry ==
    /\ retry \in {NewRetry(config) : config \in RetryConfigs}
    /\ breaker = NoBreaker
    /\ StoreIdle /\ SafetyIdle /\ ClientIdle /\ EngineIdle /\ AuditIdle

NextRetry ==
    \/ \E outcome \in CallOutcomes : RetryAttempt(outcome)

SpecRetry == InitRetry /\ [][NextRetry]_vars

\* One CircuitBreaker shared by coroutines, and the clock.
InitBreaker ==
    /\ breaker = NewBreaker
    /\ retry = NoRetry
    /\ StoreIdle /\ SafetyIdle /\ ClientIdle /\ EngineIdle /\ AuditIdle

NextBreaker ==
    \/ Tick
    \/ \E slot \in BreakerSlots : BreakerBegin(slot)
    \/ \E slot \in BreakerSlots, ok \in BOOLEAN : BreakerEnd(slot, ok)

SpecBreaker == InitBreaker /\ [][NextBreaker]_vars

\* A caller who says nothing the classifier can place.
NextUnclear ==
    \/ Tick
    \/ CreateSession
    \/ \E sid \in SessionIds, u \in UnclearUtterances, request_context \in UnclearContexts :
           UnclearTurn(sid, u, request_context)

SpecUnclear == InitEngineSpec /\ [][NextUnclear]_vars

\* One conversation, turn after turn.
NextDialog ==
    \/ CreateSession
    \/ \E sid \in SessionIds, u \in DialogUtterances, request_context \in DialogContexts :
           DialogTurn(sid, u, request_context)

SpecDialog == InitEngineSpec /\ [][NextDialog]_vars

\* is_allowed for every method and endpoint asked about.
InitRbac ==
    /\ sfIn \in [op : {"is_allowed"}, method : RbacMethods, endpoint : RbacEndpoints]
    /\ sfOut = Pending
    /\ StoreIdle /\ ClientIdle /\ EngineIdle /\ ResilienceIdle /\ AuditIdle

NextRbac ==
    \/ IsAllowedCall

SpecRbac == InitRbac /\ [][NextRbac]_vars

\* Turns of one caller, any of which may be cancelled in its backend request.
NextCancel ==
    \/ CreateSession
    \/ \E sid \in SessionIds, u \in Utterances : ProcessConversation(sid, u, EmptyDict, 0)
    \/ \E sid \in SessionIds, u \in Utterances : CancelledTurn(sid, u, EmptyDict)

SpecCancel == InitEngineSpec /\ [][NextCancel]_vars

\* Emergency turns of two sessions on the one workflow instance.
InitAudit ==
    /\ AuditIdle
    /\ StoreIdle /\ SafetyIdle /\ ClientIdle /\ EngineIdle /\ ResilienceIdle

NextAudit ==
    \/ \E sid \in AuditSessions, patient_name \in PatientNames, answered \in BOOLEAN :
           EmergencyTurn(sid, patient_name, answered)

SpecAudit == InitAudit /\ [][NextAudit]_vars

\* Turns of one caller around the confidence gate.
NextGated ==
    \/ CreateSession
    \/ \E sid \in SessionIds, u \in GatedUtterances, request_context \in GatedContexts :
           DialogTurn(sid, u, request_context)

SpecGated == InitEngineSpec /\ [][NextGated]_vars

\* The fallback classifier applied to every text of the bounded set.
InitFallback ==
    /\ sfIn \in [op : {"fallback_classification"}, text : FallbackTexts]
    /\ sfOut = Pending
    /\ StoreIdle /\ ClientIdle /\ EngineIdle /\ ResilienceIdle /\ AuditIdle

NextFallback ==
    \/ FallbackCall

SpecFallback == InitFallback /\ [][NextFallback]_vars

====
